---- MODULE Spec2Model ----
(***************************************************************************)
(* Model of the emotion-recognition training scripts:                      *)
(*   training/train_emotion_model.py            ("base")                   *)
(*   training/train_emotion_model_colab.py      ("colab")                  *)
(*   training/train_emotion_model_improved.py   ("improved")               *)
(*   training/train_wav2vec2_emotion.py         ("wav2vec2")               *)
(*   training/train_visual_emoreact.py          ("emoreact")               *)
(*                                                                         *)
(* Numbers.  Python floats are modelled by exact rationals, a record       *)
(* [n |-> numerator, d |-> denominator] with d > 0; a decimal literal of   *)
(* the source such as 0.51 is the rational 51/100.  Rounding of IEEE       *)
(* doubles is not modelled.                                                *)
(*                                                                         *)
(* Strings.  A file name is a string; endswith, replace and split are      *)
(* computed character by character.                                        *)
(***************************************************************************)
EXTENDS Integers, Sequences, FiniteSets, TLC

VARIABLES
    script,          \* which script this process runs
    \* ---- map_aus_to_emotions, one call after another (SpecMap) ----
    au_values,       \* argument of the current call: AU column -> value
    valence_label,   \* argument of the current call
    emotion_scores,  \* the local dict emotion_scores at the end of the call
    ret,             \* the array returned by the call, <<>> before any call
    first_ret,       \* the array returned by the first call on RegressionAUs/'P'
    \* ---- the file system and load_dataset (SpecLoad, Spec) ----
    aus_dir,         \* [exists, files]: files in os.listdir order
    valences_dir,    \* [exists, files]: a set of files
    pc,              \* position of the process
    data,            \* the list load_dataset returned
    warnings,        \* AU file names printed in a "Warning: ..." line
    \* ---- main of the five scripts (Spec) ----
    audio_dir,       \* [exists, folders]: <dataset_path>/audio of Wav2Vec2
    audio,           \* the (path, label) pairs load_mesd_dataset returned
    X,               \* feature rows of prepare_training_data
    y,               \* label rows of prepare_training_data
    scaler,          \* [fitted, mean, scale] of the StandardScaler
    model,           \* [built, input_dim]
    fed,             \* the samples handed to training and evaluation
    out_dir,         \* [exists, files]: names of the files in output_dir
    emotions_txt,    \* the text of emotions.txt
    scaler_json,     \* content of scaler.json
    printed_error,   \* main printed an "ERROR: ..." / "Error: ..." line
    \* ---- model.json and the scripts that rewrite or read it (SpecJson) ----
    model_json,      \* [exists, format, data]: the file model.json
    history,         \* the runs so far: [op, before], before = model_json then
    found,           \* weight name -> "found" / "not found" / "short", as
                     \* printed by the last run of check_weights
    \* ---- class weights (SpecWeights) ----
    y_train,         \* the label matrix, a sequence of rows
    class_weights,   \* what the class-weight function returned
    \* ---- train_model of train_visual_emoreact.py (SpecTrain) ----
    X_train,         \* the samples: sample -> frame -> feature value
    X_train_aug,     \* the samples augment_data returned
    y_train_aug,     \* the labels augment_data returned
    X_after,         \* the caller's X_train after the call of augment_data
    y_after,         \* the caller's y_train after the call of augment_data
    initial_bias,    \* the output bias handed to build_visual_crnn_model
    \* ---- EmotionBinaryAccuracy (SpecMetric) ----
    true_positives,  \* the four weights of the metric
    false_positives,
    false_negatives,
    true_negatives,
    seen,            \* samples passed to update_state since the last reset
    last_call,       \* the last method called on the metric
    result_value     \* what the last call of result() returned

mapVars == <<au_values, valence_label, emotion_scores, ret, first_ret>>

fsVars == <<aus_dir, valences_dir>>

loadVars == <<data, warnings>>

mainVars == <<audio_dir, audio, X, y, scaler, model, fed, out_dir,
              emotions_txt, scaler_json, printed_error>>

jsonVars == <<model_json, history, found>>

weightVars == <<y_train, class_weights>>

augVars == <<X_train, X_train_aug, y_train_aug, X_after, y_after, initial_bias>>

metricVars == <<true_positives, false_positives, false_negatives, true_negatives,
                seen, last_call, result_value>>

trainVars == <<weightVars, augVars, metricVars>>

vars == <<script, mapVars, fsVars, pc, loadVars, mainVars, jsonVars, trainVars>>

AUScripts == {"base", "colab", "improved"}

(***************************************************************************)
(* Module constants of the scripts                                         *)
(***************************************************************************)
EMOTIONS_base == <<"anger", "sadness", "anxiety", "fear", "happiness", "guilt">>

EMOTIONS_colab == <<"anger", "sadness", "anxiety", "fear", "happiness", "guilt">>

EMOTIONS_improved == <<"anger", "sadness", "anxiety", "fear", "happiness", "guilt">>

EMOTIONS_wav2vec2 == <<"anger", "sadness", "anxiety", "fear", "happiness", "guilt">>

EMOTIONS(s) ==
    CASE s = "base" -> EMOTIONS_base
      [] s = "colab" -> EMOTIONS_colab
      [] s = "improved" -> EMOTIONS_improved
      [] s = "wav2vec2" -> EMOTIONS_wav2vec2

AU_COLUMNS == <<"AU01_r", "AU02_r", "AU04_r", "AU05_r", "AU06_r", "AU07_r",
                "AU12_r", "AU14_r", "AU15_r", "AU17_r", "AU20_r", "AU25_r">>

Range(f) == {f[i] : i \in DOMAIN f}

(***************************************************************************)
(* Float arithmetic as exact rationals                                     *)
(***************************************************************************)
R(n, d) == [n |-> n, d |-> d]

Zero == R(0, 1)

One == R(1, 1)

RLt(a, b) == a.n * b.d < b.n * a.d

REq(a, b) == a.n * b.d = b.n * a.d

RLe(a, b) == a.n * b.d <= b.n * a.d

\* a * (n/d), a literal factor n/d with d > 0
RScale(a, n, d) == R(a.n * n, a.d * d)

\* Python's min(a, b): b if b < a, else a
PyMin(a, b) == IF RLt(b, a) THEN b ELSE a

\* Python's max(a, b): b if b > a, else a
PyMax(a, b) == IF RLt(a, b) THEN b ELSE a

\* au_values.get(key, 0)
Get(au, key) == IF key \in DOMAIN au THEN au[key] ELSE 0

(***************************************************************************)
(* map_aus_to_emotions                                                     *)
(***************************************************************************)
\* the dict aus built from au_values
Aus(au) ==
    [ AU01 |-> Get(au, "AU01_r"), AU02 |-> Get(au, "AU02_r"),
      AU04 |-> Get(au, "AU04_r"), AU05 |-> Get(au, "AU05_r"),
      AU06 |-> Get(au, "AU06_r"), AU07 |-> Get(au, "AU07_r"),
      AU12 |-> Get(au, "AU12_r"), AU14 |-> Get(au, "AU14_r"),
      AU15 |-> Get(au, "AU15_r"), AU17 |-> Get(au, "AU17_r"),
      AU20 |-> Get(au, "AU20_r"), AU25 |-> Get(au, "AU25_r") ]

ZeroScores ==
    [ anger |-> Zero, sadness |-> Zero, anxiety |-> Zero,
      fear |-> Zero, happiness |-> Zero, guilt |-> Zero ]

\* a dict that outlives the call: the scores of the previous call
InitScores_stale == emotion_scores

\* emotion_scores as initialised at the top of every call
InitScores == ZeroScores

\* the weighted sums with AU12 weighted 1.0 in happiness
BaseScores_au12(aus) ==
    [ InitScores EXCEPT
      !.happiness = PyMin(One,
          R(aus.AU06 * 51 + aus.AU12 * 100 + aus.AU25 * 100, 251)),
      !.anger = PyMin(One,
          R(aus.AU04 * 140 + aus.AU05 * 80 + aus.AU06 * 21
              + aus.AU17 * 67 + aus.AU20 * 50, 358)),
      !.sadness = PyMin(One,
          R(aus.AU01 * 60 + aus.AU04 * 100 + aus.AU06 * 50
              + aus.AU15 * 67, 277)),
      !.fear = PyMin(One,
          R(aus.AU01 * 100 + aus.AU02 * 57 + aus.AU04 * 100
              + aus.AU05 * 63 + aus.AU25 * 100, 420)),
      !.anxiety = PyMin(One,
          R(aus.AU01 * 100 + aus.AU02 * 57 + aus.AU04 * 70
              + aus.AU05 * 63 + aus.AU15 * 67 + aus.AU17 * 50, 407)),
      !.guilt = PyMin(One,
          R(aus.AU01 * 60 + aus.AU04 * 80 + aus.AU15 * 67
              + aus.AU17 * 67, 274)) ]

\* train_emotion_model.py: the six clamped weighted sums ("base values"),
\* weights in hundredths
BaseScores(aus) ==
    [ InitScores EXCEPT
      !.happiness = PyMin(One,
          R(aus.AU06 * 51 + aus.AU12 * 0 + aus.AU25 * 100, 151)),
      !.anger = PyMin(One,
          R(aus.AU04 * 140 + aus.AU05 * 80 + aus.AU06 * 21
              + aus.AU17 * 67 + aus.AU20 * 50, 358)),
      !.sadness = PyMin(One,
          R(aus.AU01 * 60 + aus.AU04 * 100 + aus.AU06 * 50
              + aus.AU15 * 67, 277)),
      !.fear = PyMin(One,
          R(aus.AU01 * 100 + aus.AU02 * 57 + aus.AU04 * 100
              + aus.AU05 * 63 + aus.AU25 * 100, 420)),
      !.anxiety = PyMin(One,
          R(aus.AU01 * 100 + aus.AU02 * 57 + aus.AU04 * 70
              + aus.AU05 * 63 + aus.AU15 * 67 + aus.AU17 * 50, 407)),
      !.guilt = PyMin(One,
          R(aus.AU01 * 60 + aus.AU04 * 80 + aus.AU15 * 67
              + aus.AU17 * 67, 274)) ]

\* the weighting with the branches of 'P' and 'N' exchanged
ValenceWeighting_swapped(s, valence) ==
    IF valence = "N"
    THEN [ s EXCEPT
           !.happiness = PyMin(One, RScale(s.happiness, 13, 10)),
           !.anger = RScale(s.anger, 4, 10),
           !.sadness = RScale(s.sadness, 4, 10),
           !.fear = RScale(s.fear, 4, 10),
           !.anxiety = RScale(s.anxiety, 4, 10),
           !.guilt = RScale(s.guilt, 4, 10) ]
    ELSE s

\* train_emotion_model.py: the valence-based weighting of the base values
ValenceWeighting(s, valence) ==
    IF valence = "P"
    THEN [ s EXCEPT
           !.happiness = PyMin(One, RScale(s.happiness, 13, 10)),
           !.anger = RScale(s.anger, 4, 10),
           !.sadness = RScale(s.sadness, 4, 10),
           !.fear = RScale(s.fear, 4, 10),
           !.anxiety = RScale(s.anxiety, 4, 10),
           !.guilt = RScale(s.guilt, 4, 10) ]
    ELSE IF valence = "N"
    THEN [ s EXCEPT
           !.happiness = RScale(s.happiness, 4, 10),
           !.anger = PyMin(One, RScale(s.anger, 13, 10)),
           !.sadness = PyMin(One, RScale(s.sadness, 13, 10)),
           !.fear = PyMin(One, RScale(s.fear, 13, 10)),
           !.anxiety = PyMin(One, RScale(s.anxiety, 13, 10)),
           !.guilt = PyMin(One, RScale(s.guilt, 13, 10)) ]
    ELSE s

\* train_emotion_model.py: "Clamp all values to [0, 1]"
Clamp01(s) == [ e \in DOMAIN s |-> PyMax(Zero, PyMin(One, s[e])) ]

\* emotion_scores at the end of map_aus_to_emotions, train_emotion_model.py
ScoresBase(au, valence) == Clamp01(ValenceWeighting(BaseScores(Aus(au)), valence))

\* emotion_scores at the end of map_aus_to_emotions, train_emotion_model_colab.py
\* (x / 2.0) / 2.5 = x / 5, (x / 3.0) / 2.0 = x / 6, (x / 5.0) / 1.5 = 2x / 15,
\* (x / 4.0) / 2.0 = x / 8
ScoresColab(au, valence) ==
    LET aus == Aus(au)
        s0 == InitScores
        s1 == IF valence = "P"
              THEN [ s0 EXCEPT !.happiness =
                       PyMin(One, R(aus.AU06 + aus.AU12, 5)) ]
              ELSE s0
    IN  IF valence = "N"
        THEN [ s1 EXCEPT
               !.anger = PyMin(One, R(aus.AU04 + aus.AU05 + aus.AU07, 6)),
               !.sadness = PyMin(One, R(aus.AU01 + aus.AU04 + aus.AU15, 6)),
               !.fear = PyMin(One, R(2 * (aus.AU01 + aus.AU02 + aus.AU04
                                            + aus.AU05 + aus.AU20), 15)),
               !.anxiety = PyMin(One, R(2 * (aus.AU01 + aus.AU02 + aus.AU04
                                               + aus.AU05 + aus.AU17), 15)),
               !.guilt = PyMin(One, R(aus.AU01 + aus.AU04 + aus.AU15
                                        + aus.AU17, 8)) ]
        ELSE s1

\* emotion_scores at the end of map_aus_to_emotions,
\* train_emotion_model_improved.py
\* (x / 2.0) / 1.5 = x / 3, (x / 3.0) / 1.2 = 10x / 36, (x / 5.0) / 1.0 = x / 5,
\* (x / 4.0) / 1.2 = 10x / 48
ScoresImproved(au, valence) ==
    LET aus == Aus(au)
        s0 == InitScores
        s1 == IF valence = "P"
              THEN [ s0 EXCEPT !.happiness =
                       PyMin(One, R(aus.AU06 + aus.AU12, 3)) ]
              ELSE s0
    IN  IF valence = "N"
        THEN [ s1 EXCEPT
               !.anger = PyMin(One, R(10 * (aus.AU04 + aus.AU05 + aus.AU07), 36)),
               !.sadness = PyMin(One, R(10 * (aus.AU01 + aus.AU04 + aus.AU15), 36)),
               !.fear = PyMin(One, R(aus.AU01 + aus.AU02 + aus.AU04
                                       + aus.AU05 + aus.AU20, 5)),
               !.anxiety = PyMin(One, R(aus.AU01 + aus.AU02 + aus.AU04
                                          + aus.AU05 + aus.AU17, 5)),
               !.guilt = PyMin(One, R(10 * (aus.AU01 + aus.AU04 + aus.AU15
                                              + aus.AU17), 48)) ]
        ELSE s1

\* every script using the mapping of train_emotion_model.py
Scores_allBase(s, au, valence) == ScoresBase(au, valence)

\* the scores of one script
Scores(s, au, valence) ==
    CASE s = "base" -> ScoresBase(au, valence)
      [] s = "colab" -> ScoresColab(au, valence)
      [] s = "improved" -> ScoresImproved(au, valence)

\* the scores in alphabetical order of the emotions
ToArray_sorted(s, scores) ==
    <<scores["anger"], scores["anxiety"], scores["fear"],
      scores["guilt"], scores["happiness"], scores["sadness"]>>

\* np.array([emotion_scores[e] for e in EMOTIONS])
ToArray(s, scores) == [ i \in 1..Len(EMOTIONS(s)) |-> scores[EMOTIONS(s)[i]] ]

map_aus_to_emotions(s, au, valence) == ToArray(s, Scores(s, au, valence))

(***************************************************************************)
(* Inputs of map_aus_to_emotions                                           *)
(***************************************************************************)
\* at most MaxKeys of the AU columns are present in au_values
MaxKeys == 2

\* AU values: below zero, zero, below and above the clamp
AUValues == {-1, 0, 2, 5}

\* 'P', 'N', 'M' and a label that is none of them
ValenceLabels == {"P", "N", "M", "CT"}

AUDicts ==
    UNION { [K -> AUValues] :
            K \in { K \in SUBSET Range(AU_COLUMNS) : Cardinality(K) <= MaxKeys } }

\* the inputs of a sequence of calls: three of the columns, present or not
SeqDicts ==
    UNION { [K -> {0, 1, 5}] : K \in SUBSET {"AU04_r", "AU06_r", "AU12_r"} }

RegressionAUs == [ c \in {"AU06_r", "AU12_r"} |-> 1 ]

\* AU06 = 1, AU12 = 1, all other AUs 0 (present or not)
IsRegression(au) == Aus(au) = Aus(RegressionAUs)

(***************************************************************************)
(* SpecMap: one call of map_aus_to_emotions on arguments drawn by Init     *)
(* SpecMapSeq: a process of one script calls it again and again            *)
(***************************************************************************)
NoCall == << >>

\* the variables of the file system and of main, for a process that only
\* calls map_aus_to_emotions
NoScaler == [fitted |-> FALSE, mean |-> << >>, scale |-> << >>]

NoModel == [built |-> FALSE, input_dim |-> 0]

\* no model.json yet
NoModelJson == [exists |-> FALSE, format |-> "", data |-> << >>]

IdleJson ==
    /\ model_json = NoModelJson
    /\ history = << >>
    /\ found = << >>

\* no class-weight function called, no metric updated
IdleWeights ==
    /\ y_train = << >>
    /\ class_weights = << >>

IdleAug ==
    /\ X_train = << >>
    /\ X_train_aug = << >>
    /\ y_train_aug = << >>
    /\ X_after = << >>
    /\ y_after = << >>
    /\ initial_bias = << >>

IdleMetric ==
    /\ true_positives = 0
    /\ false_positives = 0
    /\ false_negatives = 0
    /\ true_negatives = 0
    /\ seen = 0
    /\ last_call = ""
    /\ result_value = << >>

IdleTrain == IdleWeights /\ IdleAug /\ IdleMetric

\* the variables of main before main has done anything
IdleMain ==
    /\ audio = << >>
    /\ X = << >>
    /\ y = << >>
    /\ scaler = NoScaler
    /\ model = NoModel
    /\ fed = << >>
    /\ out_dir = [exists |-> FALSE, files |-> {}]
    /\ emotions_txt = ""
    /\ scaler_json = NoScaler
    /\ printed_error = FALSE

\* the variables of the file system and of main, for a process that only
\* calls map_aus_to_emotions
IdleLoad ==
    /\ aus_dir = [exists |-> FALSE, files |-> << >>]
    /\ valences_dir = [exists |-> FALSE, files |-> {}]
    /\ audio_dir = [exists |-> FALSE, folders |-> << >>]
    /\ pc = "map"
    /\ data = << >>
    /\ warnings = << >>
    /\ IdleMain

InitMap ==
    /\ script \in AUScripts
    /\ au_values \in AUDicts
    /\ valence_label \in ValenceLabels
    /\ emotion_scores = ZeroScores
    /\ ret = NoCall
    /\ first_ret = NoCall
    /\ IdleLoad
    /\ IdleJson
    /\ IdleTrain

InitMapSeq ==
    /\ script \in AUScripts
    /\ au_values = << >>
    /\ valence_label = ""
    /\ emotion_scores = ZeroScores
    /\ ret = NoCall
    /\ first_ret = NoCall
    /\ IdleLoad
    /\ IdleJson
    /\ IdleTrain

\* one call map_aus_to_emotions(au, v)
MapCall(au, v) ==
    LET scores == Scores(script, au, v)
        out == ToArray(script, scores)
    IN  /\ au_values' = au
        /\ valence_label' = v
        /\ emotion_scores' = scores
        /\ ret' = out
        /\ first_ret' = IF IsRegression(au) /\ v = "P" /\ first_ret = NoCall
                        THEN out
                        ELSE first_ret
        /\ UNCHANGED <<trainVars, jsonVars, script, fsVars, pc, loadVars, mainVars>>

MapApply ==
    /\ ret = NoCall
    /\ MapCall(au_values, valence_label)

MapCallSeq == \E au \in SeqDicts, v \in ValenceLabels : MapCall(au, v)

NextMap == MapApply

NextMapSeq == MapCallSeq

SpecMap == InitMap /\ [][NextMap]_vars

SpecMapSeq == InitMapSeq /\ [][NextMapSeq]_vars

(***************************************************************************)
(* Claims about map_aus_to_emotions                                        *)
(***************************************************************************)
Called == ret # NoCall

Idx(e) == CHOOSE i \in 1..6 : <<"anger", "sadness", "anxiety", "fear", "happiness", "guilt">>[i] = e

\* C6: map_aus_to_emotions returns, in all three AU scripts, for every
\* mapping of AU values (keys may be missing) and every valence label, an
\* array of exactly 6 values, each in the closed range 0 to 1.
C6_RangeAllScripts ==
    Called => /\ Len(ret) = 6
              /\ \A i \in 1..Len(ret) : RLe(Zero, ret[i]) /\ RLe(ret[i], One)

\* the valence-scaled value of a clamped weighted sum: 'P' gives happiness
\* min(1, 1.3 base) and the five others 0.4 base; 'N' gives happiness
\* 0.4 base and the five others min(1, 1.3 base); any other label gives base.
C7_Claimed(e, base, valence) ==
    LET up == PyMin(One, RScale(base, 13, 10))
        down == RScale(base, 4, 10)
    IN  CASE valence = "P" -> IF e = "happiness" THEN up ELSE down
          [] valence = "N" -> IF e = "happiness" THEN down ELSE up
          [] OTHER -> base

\* C7: map_aus_to_emotions of train_emotion_model.py returns the
\* valence-scaled clamped weighted sums: with base the weighted sum of an
\* emotion clamped to the range 0 to 1, 'P' gives happiness min(1, 1.3 base)
\* and the other five 0.4 base, 'N' gives happiness 0.4 base and the other
\* five min(1, 1.3 base), and any other label gives base.
C7_ValenceScaling ==
    (Called /\ script = "base") =>
        \A e \in DOMAIN ZeroScores :
            LET base == PyMax(Zero, BaseScores(Aus(au_values))[e])
            IN  REq(ret[Idx(e)], C7_Claimed(e, base, valence_label))

\* a 'P' call whose anger sum is strictly between 0 and 1 and whose
\* happiness sum is positive
C7_Witness ==
    /\ Called /\ script = "base" /\ valence_label = "P"
    /\ RLt(Zero, BaseScores(Aus(au_values)).anger)
    /\ RLt(BaseScores(Aus(au_values)).anger, One)
    /\ RLt(Zero, BaseScores(Aus(au_values)).happiness)
    /\ RLt(ret[Idx("anger")], BaseScores(Aus(au_values)).anger)

\* C8: in a sequence of calls the result for AU06 = 1, AU12 = 1, all other
\* AUs 0, valence 'P' is the same array every time and its happiness entry
\* is one fixed value per script: 0.663/1.51 (train_emotion_model.py),
\* 0.4 (Colab), 1/1.5 (improved).
C8_RegressionValue ==
    (Called /\ IsRegression(au_values) /\ valence_label = "P") =>
        /\ ret = first_ret
        /\ REq(ret[Idx("happiness")],
               CASE script = "base" -> R(663, 1510)
                 [] script = "colab" -> R(4, 10)
                 [] script = "improved" -> R(10, 15))

\* the regression call made after an earlier call with another result
C8_Witness ==
    /\ Called /\ IsRegression(au_values) /\ valence_label = "P"
    /\ au_values # RegressionAUs
    /\ first_ret # NoCall /\ first_ret = ret

(***************************************************************************)
(* Python string operations on file names                                  *)
(***************************************************************************)
\* s[i:] (1-based i)
StrFrom(s, i) == SubSeq(s, i, Len(s))

\* s.endswith(suffix)
EndsWith(s, suffix) ==
    /\ Len(s) >= Len(suffix)
    /\ StrFrom(s, Len(s) - Len(suffix) + 1) = suffix

\* s.replace(old, ''): every occurrence of old is removed, left to right
RECURSIVE StrRemoveAll(_, _)
StrRemoveAll(s, old) ==
    IF Len(s) < Len(old) THEN s
    ELSE IF SubSeq(s, 1, Len(old)) = old
         THEN StrRemoveAll(StrFrom(s, Len(old) + 1), old)
         ELSE SubSeq(s, 1, 1) \o StrRemoveAll(StrFrom(s, 2), old)

\* s.split('_')[-1]: the text after the last '_', all of s if there is none
SplitLast(s) ==
    LET us == { i \in 1..Len(s) : SubSeq(s, i, i) = "_" }
    IN  IF us = {} THEN s
        ELSE StrFrom(s, (CHOOSE i \in us : \A j \in us : j <= i) + 1)

(***************************************************************************)
(* CSV files                                                               *)
(*   a file is [name, ok, rows]; ok = FALSE: pd.read_csv raises on it      *)
(*   a row of an AU file is [Image, aus], of a valence file [Image]        *)
(***************************************************************************)
File(name, ok, rows) == [name |-> name, ok |-> ok, rows |-> rows]

\* pd.merge(au_df, valence_df, on='Image', how='inner'): the rows of au_df,
\* in order, once for every row of valence_df with the same Image
RECURSIVE MatchRows(_, _)
MatchRows(row, vrows) ==
    IF vrows = << >> THEN << >>
    ELSE (IF Head(vrows).Image = row.Image THEN <<row>> ELSE << >>)
         \o MatchRows(row, Tail(vrows))

RECURSIVE Merge(_, _)
Merge(arows, vrows) ==
    IF arows = << >> THEN << >>
    ELSE MatchRows(Head(arows), vrows) \o Merge(Tail(arows), vrows)

(***************************************************************************)
(* load_dataset(aus_dir, valences_dir)                                     *)
(* The three AU scripts hold the same function.  The result is             *)
(* [raised, data, warnings]: raised = TRUE when an exception leaves the    *)
(* function (then nothing is returned).                                    *)
(***************************************************************************)
\* prefix = au_file.replace('_aus.csv', '')
Prefix(au_file) == StrRemoveAll(au_file, "_aus.csv")

\* os.path.exists(os.path.join(valences_dir, valence_file))
ValenceExists(vdir, valence_file) ==
    vdir.exists /\ \E f \in vdir.files : f.name = valence_file

ValenceFile(vdir, valence_file) ==
    CHOOSE f \in vdir.files : f.name = valence_file

\* au_files = [f for f in os.listdir(aus_dir) if f.endswith('_aus.csv')]
AuFiles(adir) == SelectSeq(adir.files, LAMBDA f : EndsWith(f.name, "_aus.csv"))

\* the body of the loop "for au_file in au_files", from the state acc
LoadStep(acc, f, vdir) ==
    LET prefix == Prefix(f.name)
        valence_file == prefix \o "_valences.csv"
    IN  IF ~ValenceExists(vdir, valence_file)
        THEN [acc EXCEPT !.warnings = Append(@, f.name)]
        ELSE IF ~f.ok \/ ~ValenceFile(vdir, valence_file).ok
        THEN [acc EXCEPT !.raised = TRUE]
        ELSE [acc EXCEPT !.data = Append(@,
                 [ prefix |-> prefix,
                   valence_label |-> SplitLast(prefix),
                   data |-> Merge(f.rows, ValenceFile(vdir, valence_file).rows) ])]

RECURSIVE LoadLoop(_, _, _)
LoadLoop(acc, files, vdir) ==
    IF files = << >> \/ acc.raised THEN acc
    ELSE LoadLoop(LoadStep(acc, Head(files), vdir), Tail(files), vdir)

load_dataset(adir, vdir) ==
    LET acc0 == [raised |-> FALSE, data |-> << >>, warnings |-> << >>]
    IN  IF ~adir.exists
        THEN [acc0 EXCEPT !.raised = TRUE]
        ELSE LoadLoop(acc0, AuFiles(adir), vdir)

(***************************************************************************)
(* SpecLoad: one call of load_dataset on directories drawn by Init         *)
(***************************************************************************)
\* at most MaxFiles files in aus_dir
MaxFiles == 2

LoadAuNames ==
    { "E01_CT_P_aus.csv", "E02_N_aus.csv", "E03_aus.csv_aus.csv",
      "E01_CT_P_valences.csv", "E02_aus.csv.bak", "_aus.csv" }

LoadValNames ==
    { "E01_CT_P_valences.csv", "E02_N_valences.csv", "E03_valences.csv",
      "E03_aus.csv_valences.csv", "_valences.csv", "E01_CT_P_aus.csv" }

ZeroAUs == [ c \in Range(AU_COLUMNS) |-> 0 ]

LoadAuRows == << [Image |-> 1, aus |-> ZeroAUs] >>

LoadValRows == << [Image |-> 1] >>

\* sequences of at most n distinct elements of S
RECURSIVE Listings(_, _)
Listings(S, n) ==
    IF n = 0 THEN { << >> }
    ELSE LET shorter == Listings(S, n - 1)
         IN  shorter \cup
             { Append(l, x) : l \in { l \in shorter : Len(l) = n - 1 },
                              x \in S } 

Distinct(l) == \A i, j \in DOMAIN l : i # j => l[i].name # l[j].name

LoadAusDirs ==
    { [exists |-> TRUE, files |-> l] :
        l \in { l \in Listings({ File(n, ok, LoadAuRows) :
                                   n \in LoadAuNames, ok \in BOOLEAN }, MaxFiles) :
                Distinct(l) } }
    \cup { [exists |-> FALSE, files |-> << >>] }

LoadValencesDirs ==
    { [exists |-> TRUE, files |-> { File(n, TRUE, LoadValRows) : n \in N }] :
        N \in SUBSET LoadValNames }
    \cup { [exists |-> FALSE, files |-> {}] }

IdleMap ==
    /\ au_values = << >>
    /\ valence_label = ""
    /\ emotion_scores = ZeroScores
    /\ ret = NoCall
    /\ first_ret = NoCall

InitLoad ==
    /\ script \in AUScripts
    /\ aus_dir \in LoadAusDirs
    /\ valences_dir \in LoadValencesDirs
    /\ pc = "call"
    /\ data = << >>
    /\ warnings = << >>
    /\ IdleMap
    /\ audio_dir = [exists |-> FALSE, folders |-> << >>]
    /\ IdleMain
    /\ IdleJson
    /\ IdleTrain

\* data = load_dataset(aus_dir, valences_dir)
LoadCall ==
    /\ pc = "call"
    /\ LET r == load_dataset(aus_dir, valences_dir)
       IN  /\ pc' = IF r.raised THEN "raised" ELSE "returned"
           /\ data' = IF r.raised THEN << >> ELSE r.data
           /\ warnings' = r.warnings
    /\ UNCHANGED <<trainVars, jsonVars, script, mapVars, fsVars, mainVars>>

NextLoad == LoadCall

SpecLoad == InitLoad /\ [][NextLoad]_vars

(***************************************************************************)
(* Claims about load_dataset                                               *)
(***************************************************************************)
\* the prefix of the claim: the name without its ending '_aus.csv'
C1_Prefix(name) == SubSeq(name, 1, Len(name) - Len("_aus.csv"))

C1_Paired(f) ==
    /\ EndsWith(f.name, "_aus.csv")
    /\ valences_dir.exists
    /\ \E v \in valences_dir.files : v.name = C1_Prefix(f.name) \o "_valences.csv"

\* C1: the list load_dataset returns has exactly one entry for each file of
\* aus_dir whose name ends in '_aus.csv' and whose '<prefix>_valences.csv'
\* exists in valences_dir, and no other entry; an AU file without its
\* valence file is skipped with a warning.
C1_ExactlyThePairedFiles ==
    pc = "returned" =>
        /\ \A i \in DOMAIN aus_dir.files :
             LET f == aus_dir.files[i]
             IN  Cardinality({ k \in DOMAIN data :
                                 data[k].prefix = C1_Prefix(f.name) })
                   = (IF C1_Paired(f) THEN 1 ELSE 0)
        /\ \A k \in DOMAIN data :
             \E i \in DOMAIN aus_dir.files :
                 /\ C1_Paired(aus_dir.files[i])
                 /\ data[k].prefix = C1_Prefix(aus_dir.files[i].name)
        /\ \A i \in DOMAIN aus_dir.files :
             LET f == aus_dir.files[i]
             IN  (EndsWith(f.name, "_aus.csv") /\ ~C1_Paired(f))
                   <=> (\E w \in DOMAIN warnings : warnings[w] = f.name)

(***************************************************************************)
(* prepare_training_data, StandardScaler, train_test_split                 *)
(***************************************************************************)
\* the frames of the loaded entries, in order: one per row of every merged
\* table, with the valence label of its entry
RECURSIVE Frames(_)
Frames(d) ==
    IF d = << >> THEN << >>
    ELSE [ k \in DOMAIN Head(d).data |->
             [ prefix |-> Head(d).prefix,
               valence_label |-> Head(d).valence_label,
               aus |-> Head(d).data[k].aus ] ]
         \o Frames(Tail(d))

\* au_features = [row[au] for au in AU_COLUMNS]
AuFeatures(aus) == [ i \in 1..Len(AU_COLUMNS) |-> aus[AU_COLUMNS[i]] ]

\* X of prepare_training_data
PrepareX(d) == [ k \in DOMAIN Frames(d) |-> AuFeatures(Frames(d)[k].aus) ]

\* labels made with the valence label of the first entry for every frame
PrepareY_firstLabel(s, d) ==
    [ k \in DOMAIN Frames(d) |->
        map_aus_to_emotions(s, Frames(d)[k].aus, Frames(d)[1].valence_label) ]

\* y of prepare_training_data
PrepareY(s, d) ==
    [ k \in DOMAIN Frames(d) |->
        map_aus_to_emotions(s, Frames(d)[k].aus, Frames(d)[k].valence_label) ]

RECURSIVE SumCol(_, _, _)
SumCol(rows, c, sq) ==
    IF rows = << >> THEN 0
    ELSE (IF sq THEN Head(rows)[c] * Head(rows)[c] ELSE Head(rows)[c])
         + SumCol(Tail(rows), c, sq)

\* StandardScaler().fit(rows): mean_ and scale_ have one entry per column;
\* scale_ is the square root of the variance, 1 where the variance is 0
ScalerFit(rows) ==
    LET n == Len(rows)
        cols == 1..Len(rows[1])
        var(c) == R(n * SumCol(rows, c, TRUE)
                      - SumCol(rows, c, FALSE) * SumCol(rows, c, FALSE), n * n)
    IN  [ fitted |-> TRUE,
          mean |-> [ c \in cols |-> R(SumCol(rows, c, FALSE), n) ],
          scale |-> [ c \in cols |->
                        [ sqrt_of |-> IF var(c).n = 0 THEN One ELSE var(c) ] ] ]

\* ceil(n * num / den)
CeilFrac(n, num, den) == (n * num + den - 1) \div den

\* train_test_split(..., test_size=0.2): the number of training rows;
\* it raises when that is 0
NTrain(n) == n - CeilFrac(n, 2, 10)

\* X_train.shape[0]
Shape1_rows(rows) == Len(rows)

\* X_train.shape[1]
Shape1(rows) == Len(rows[1])

(***************************************************************************)
(* load_mesd_dataset (train_wav2vec2_emotion.py)                           *)
(*   audio_dir.folders: the entries of <dataset_path>/audio in listdir     *)
(*   order, each [name, isdir, files]; a file is [name, loadable]          *)
(***************************************************************************)
\* emotion_folder.lower()
Lower(name) ==
    CASE name = "Fear" -> "fear"
      [] name = "Sadness" -> "sadness"
      [] name = "Surprise" -> "surprise"
      [] OTHER -> name

\* mesd_to_our.get(key, 'happiness')
MesdToOur(key) ==
    CASE key = "anger" -> "anger"
      [] key = "sadness" -> "sadness"
      [] key = "fear" -> "fear"
      [] key = "happiness" -> "happiness"
      [] key = "disgust" -> "anger"
      [] key = "neutral" -> "happiness"
      [] OTHER -> "happiness"

\* EMOTIONS.index(e), 0-based
IndexOf(list, e) == (CHOOSE i \in DOMAIN list : list[i] = e) - 1

IsAudio(name) ==
    EndsWith(name, ".wav") \/ EndsWith(name, ".mp3") \/ EndsWith(name, ".flac")

FolderSamples(folder) ==
    LET mapped == MesdToOur(Lower(folder.name))
        fs == SelectSeq(folder.files, LAMBDA f : IsAudio(f.name))
    IN  IF ~folder.isdir \/ mapped \notin Range(EMOTIONS_wav2vec2) THEN << >>
        ELSE [ k \in DOMAIN fs |->
                 [ folder |-> folder.name, file |-> fs[k].name,
                   loadable |-> fs[k].loadable,
                   label |-> IndexOf(EMOTIONS_wav2vec2, mapped) ] ]

RECURSIVE MesdLoop(_)
MesdLoop(folders) ==
    IF folders = << >> THEN << >>
    ELSE FolderSamples(Head(folders)) \o MesdLoop(Tail(folders))

load_mesd_dataset(adir) == IF ~adir.exists THEN << >> ELSE MesdLoop(adir.folders)

\* a substituted sample that keeps the label of its folder
GetItem_keepLabel(a) ==
    IF a.loadable
    THEN [ source |-> a.folder \o "/" \o a.file, zeros |-> FALSE, label |-> a.label ]
    ELSE [ source |-> a.folder \o "/" \o a.file, zeros |-> TRUE, label |-> a.label ]

\* EmotionAudioDataset.__getitem__: the sample handed to the trainer; any
\* exception while loading gives an all-zero waveform with label 0
GetItem(a) ==
    IF a.loadable
    THEN [ source |-> a.folder \o "/" \o a.file, zeros |-> FALSE, label |-> a.label ]
    ELSE [ source |-> a.folder \o "/" \o a.file, zeros |-> TRUE, label |-> 0 ]

\* the two stratified splits of main, 70 / 15 / 15
ClassCount(samples, l) == Cardinality({ k \in DOMAIN samples : samples[k].label = l })

Classes(samples) == { samples[k].label : k \in DOMAIN samples }

\* outcomes of the two train_test_split calls: TRUE = both return
SplitOutcomes(samples) ==
    LET n == Len(samples)
        nc == Cardinality(Classes(samples))
        n_temp == CeilFrac(n, 3, 10)
        n_test == CeilFrac(n_temp, 5, 10)
        first_ok == /\ n - n_temp >= 1
                    /\ \A l \in Classes(samples) : ClassCount(samples, l) >= 2
                    /\ n - n_temp >= nc /\ n_temp >= nc
    IN  IF ~first_ok \/ n_temp - n_test < 1 \/ n_temp < 2 THEN {FALSE}
        ELSE IF nc = 1 THEN {TRUE}
        ELSE {TRUE, FALSE}

(***************************************************************************)
(* model.json: the document tfjs.converters.save_keras_model writes        *)
(*   data = [ class_name, config, weights ]                                *)
(*     class_name: modelTopology.model_config.class_name                   *)
(*     config:     modelTopology.model_config.config, a dict with 'name',  *)
(*                 'layers' and, in some versions, 'build_input_shape'     *)
(*     weights:    the names in weightsManifest[0].weights                 *)
(*   A dict is a function from its keys; a shape is a sequence of          *)
(*   integers, None in a shape is the value None below.                    *)
(***************************************************************************)
None == -1

\* key in d
Has(d, key) == key \in DOMAIN d

\* d.pop(key, None) / del d[key]
Pop(d, key) == [ k \in DOMAIN d \ {key} |-> d[k] ]

\* d[key] = value
Put(d, key, value) ==
    [ k \in DOMAIN d \cup {key} |-> IF k = key THEN value ELSE d[k] ]

\* an entry of inbound_nodes: a dict with the given keys, or a list
DictNode(keys) == [kind |-> "dict", keys |-> keys, items |-> << >>]

ListNode(items) == [kind |-> "list", keys |-> {}, items |-> items]

\* train_emotion_model.py: one entry of the simplified inbound_nodes;
\* [[]] is the list holding one empty list, [] the empty list
SimplifyNode(node) ==
    IF node.kind = "dict" /\ "args" \in node.keys THEN ListNode(<<"[]">>)
    ELSE IF node.kind = "list" THEN node
    ELSE ListNode(<< >>)

\* train_emotion_model.py: the loop body of the Functional branch
SimplifyInbound(layer) ==
    IF Has(layer, "inbound_nodes") /\ layer.inbound_nodes # << >>
    THEN Put(layer, "inbound_nodes",
             [ j \in DOMAIN layer.inbound_nodes |->
                 SimplifyNode(layer.inbound_nodes[j]) ])
    ELSE layer

\* train_emotion_model.py: input_shape as read from the InputLayer config
\* and, failing that, from build_input_shape; << >> stands for a value that
\* is None or empty (the code only tests its truth)
InputShapeOf(input_config, config) ==
    LET from_layer ==
            IF Has(input_config, "inputShape") THEN input_config.inputShape
            ELSE IF Has(input_config, "batch_shape")
                 THEN IF Len(input_config.batch_shape) = 2
                      THEN <<input_config.batch_shape[2]>>
                      ELSE << >>
                 ELSE << >>
    IN  IF from_layer # << >> THEN from_layer
        ELSE IF Has(config, "build_input_shape")
                  /\ Len(config.build_input_shape) = 2
             THEN <<config.build_input_shape[2]>>
             ELSE << >>

\* a Sequential branch that removes the layer after the InputLayer as well
PatchSequential_popsTwo(config) ==
    Put(config, "layers", Tail(Tail(config.layers)))

\* train_emotion_model.py: the Sequential branch of the patch
PatchSequential(config) ==
    LET layers == config.layers
        input_shape == InputShapeOf(layers[1].config, config)
        popped == Tail(layers)
        fixed == IF popped # << >> /\ popped[1].class_name = "Dense"
                      /\ input_shape # << >>
                 THEN [ popped EXCEPT ![1] =
                          Put(@, "config", Put(@.config, "inputShape", input_shape)) ]
                 ELSE popped
        with_layers == Put(config, "layers", fixed)
    IN  IF input_shape # << >> /\ Has(config, "build_input_shape")
        THEN Put(with_layers, "build_input_shape", <<None>> \o input_shape)
        ELSE with_layers

\* train_emotion_model.py: the branch that keeps the InputLayer
PatchInputLayer(config) ==
    LET layers == config.layers
        input_config == layers[1].config
        input_shape == InputShapeOf(input_config, config)
        cleared == Pop(Pop(Pop(input_config, "batch_shape"), "batchInputShape"),
                       "batch_input_shape")
        fixed == IF input_shape # << >>
                 THEN Put(cleared, "inputShape", input_shape)
                 ELSE cleared
    IN  Put(config, "layers", [ layers EXCEPT ![1] = Put(@, "config", fixed) ])

\* train_emotion_model.py, main: the whole patch of model_data
TrainPatch(d) ==
    LET config1 ==
            IF d.class_name = "Functional"
            THEN Put(d.config, "layers",
                     [ i \in DOMAIN d.config.layers |->
                         SimplifyInbound(d.config.layers[i]) ])
            ELSE d.config
        layers == config1.layers
    IN  [ d EXCEPT !.config =
            IF d.class_name = "Sequential" /\ layers # << >>
                 /\ layers[1].class_name = "InputLayer"
            THEN PatchSequential(config1)
            ELSE IF layers # << >> /\ layers[1].class_name = "InputLayer"
            THEN PatchInputLayer(config1)
            ELSE config1 ]

\* an InputLayer that gives its shape as 'batch_shape'
NewInputLayer_batchShape(input_shape) ==
    [ class_name |-> "InputLayer",
      config |-> [ dtype |-> "float32", sparse |-> FALSE, ragged |-> FALSE,
                   name |-> "input_layer", batch_shape |-> <<None>> \o input_shape ],
      name |-> "input_layer",
      inbound_nodes |-> << >> ]

\* restore_and_fix_inputlayer.py: the InputLayer it creates
NewInputLayer(input_shape) ==
    [ class_name |-> "InputLayer",
      config |-> [ dtype |-> "float32", sparse |-> FALSE, ragged |-> FALSE,
                   name |-> "input_layer", inputShape |-> input_shape ],
      name |-> "input_layer",
      inbound_nodes |-> << >> ]

\* a rewrite that leaves 'inputShape' in the Dense layer
Restore_keepsKey(d) ==
    LET layers == d.config.layers
    IN  IF layers # << >> /\ layers[1].class_name = "Dense"
             /\ Has(layers[1].config, "inputShape")
        THEN LET input_shape == layers[1].config.inputShape
                 inserted == <<NewInputLayer(input_shape)>> \o layers
                 with_layers == Put(d.config, "layers", inserted)
             IN  [ d EXCEPT !.config =
                     IF Has(d.config, "build_input_shape")
                     THEN Put(with_layers, "build_input_shape",
                              <<None>> \o input_shape)
                     ELSE with_layers ]
        ELSE d

\* a rewrite that does not test the class of the first layer
Restore_anyClass(d) ==
    LET layers == d.config.layers
    IN  IF layers # << >> /\ Has(layers[1].config, "inputShape")
        THEN LET input_shape == layers[1].config.inputShape
                 first == Put(layers[1], "config", Pop(layers[1].config, "inputShape"))
                 inserted == <<NewInputLayer(input_shape), first>> \o Tail(layers)
             IN  [ d EXCEPT !.config = Put(d.config, "layers", inserted) ]
        ELSE d

\* restore_and_fix_inputlayer.py: the rewrite of data
Restore(d) ==
    LET layers == d.config.layers
    IN  IF layers # << >> /\ layers[1].class_name = "Dense"
             /\ Has(layers[1].config, "inputShape")
        THEN LET input_shape == layers[1].config.inputShape
                 dense == Put(layers[1], "config", Pop(layers[1].config, "inputShape"))
                 inserted == <<NewInputLayer(input_shape), dense>> \o Tail(layers)
                 with_layers == Put(d.config, "layers", inserted)
             IN  [ d EXCEPT !.config =
                     IF Has(d.config, "build_input_shape")
                     THEN Put(with_layers, "build_input_shape",
                              <<None>> \o input_shape)
                     ELSE with_layers ]
        ELSE d

\* train_visual_emoreact.py, main: does the fix rewrite model.json
EmoReactApplies(d) == Has(d.config.layers[1].config, "batch_shape")

\* a fix that keeps the batch dimension in inputShape
EmoReactFix_keepsBatchDim(d) ==
    LET input_layer == d.config.layers[1]
        batch_shape == input_layer.config.batch_shape
        fixed == Pop(Put(input_layer.config, "inputShape", batch_shape),
                     "batch_shape")
    IN  [ d EXCEPT !.config =
            Put(@, "layers", [ @.layers EXCEPT ![1] = Put(@, "config", fixed) ]) ]

\* train_visual_emoreact.py, main: batch_shape becomes inputShape
EmoReactFix(d) ==
    LET input_layer == d.config.layers[1]
        batch_shape == input_layer.config.batch_shape
        fixed == Pop(Put(input_layer.config, "inputShape", Tail(batch_shape)),
                     "batch_shape")
    IN  [ d EXCEPT !.config =
            Put(@, "layers", [ @.layers EXCEPT ![1] = Put(@, "config", fixed) ]) ]

\* name.split(sep) for a one-character sep
RECURSIVE Split(_, _)
Split(name, sep) ==
    IF \A i \in 1..Len(name) : SubSeq(name, i, i) # sep THEN <<name>>
    ELSE LET i == CHOOSE i \in 1..Len(name) :
                      /\ SubSeq(name, i, i) = sep
                      /\ \A j \in 1..(i - 1) : SubSeq(name, j, j) # sep
         IN  <<SubSeq(name, 1, i - 1)>> \o Split(SubSeq(name, i + 1, Len(name)), sep)

\* check_weights.py: what the analysis prints for one weight
WeightReport(d, weight_name) ==
    LET parts == Split(weight_name, "/")
    IN  IF Len(parts) >= 2
        THEN IF \E i \in DOMAIN d.config.layers :
                    /\ Has(d.config.layers[i].config, "name")
                    /\ d.config.layers[i].config.name = parts[2]
             THEN "found"
             ELSE "not found"
        ELSE "short"

\* check_weights.py: the analysis of all weights
check_weights(d) == [ w \in DOMAIN d.weights |-> WeightReport(d, d.weights[w]) ]

\* input shapes: one feature vector, a sequence of feature vectors
InputShapes == { <<12>>, <<10, 12>> }

\* the key under which a config carries its shape; "" for none
ShapeKeys == { "", "inputShape", "batch_shape", "batch_input_shape", "batchInputShape" }

\* a config with the shape under the given key
WithShape(config, key, shape) ==
    CASE key = "" -> config
      [] key = "inputShape" -> Put(config, key, shape)
      [] OTHER -> Put(config, key, <<None>> \o shape)

\* entries of inbound_nodes the converter writes
InboundNodes ==
    { DictNode({"args", "kwargs"}), DictNode({"kwargs"}), ListNode(<<"input_layer">>) }

\* a layer; a Functional model gives it 'name' and 'inbound_nodes'
Layer(class, class_name, name, config, nodes) ==
    LET l == [ class_name |-> class_name, config |-> Put(config, "name", name) ]
    IN  IF class = "Functional"
        THEN Put(Put(l, "name", name), "inbound_nodes", nodes)
        ELSE l

\* the layer lists: an InputLayer or a Dense layer first, then a Dense or
\* an LSTM layer, then a Dense layer
LayerLists(class, key, shape, node) ==
    LET input == Layer(class, "InputLayer", "input_layer",
                       WithShape([dtype |-> "float32", sparse |-> FALSE], key, shape),
                       << >>)
        dense == Layer(class, "Dense", "dense", [units |-> 256], <<node>>)
        lstm == Layer(class, "LSTM", "lstm", [units |-> 64], <<node>>)
        first == Layer(class, "Dense", "dense",
                       WithShape([units |-> 256], key, shape), <<node>>)
        last == Layer(class, "Dense", "dense_1", [units |-> 6], <<node>>)
    IN  { <<input, dense, last>>, <<input, lstm, last>> }
        \cup ( IF class = "Sequential" /\ key \in {"", "inputShape", "batch_input_shape"}
               THEN { <<first, last>> }
               ELSE {} )

\* weight names: with and without the model name in front
WeightNames ==
    { <<"sequential/dense/kernel", "sequential/dense_1/bias", "sequential/lstm/kernel">>,
      <<"dense/kernel", "dense_1/bias", "bias">> }

\* the documents the converter writes
RawData ==
    UNION { { [ class_name |-> class,
                config |-> IF bis
                           THEN [ name |-> "model", layers |-> ls,
                                  build_input_shape |-> <<None>> \o shape ]
                           ELSE [ name |-> "model", layers |-> ls ],
                weights |-> w ] :
              ls \in LayerLists(class, key, shape, node), w \in WeightNames } :
            class \in {"Sequential", "Functional"}, key \in ShapeKeys,
            shape \in InputShapes, bis \in BOOLEAN,
            node \in InboundNodes }

RawFiles == { [exists |-> TRUE, format |-> "converter", data |-> d] : d \in RawData }

\* what tfjs.converters.save_keras_model writes for the model of a script:
\* a Sequential model (train_emotion_model.py:210, train_visual_emoreact.py:185)
\* whose InputLayer is followed by a Dense layer or, for the sequence model,
\* by another layer; the key of the shape and the presence of
\* build_input_shape depend on the version of the library
ConverterOutput(second, shape) ==
    { f \in RawFiles :
        /\ f.data.class_name = "Sequential"
        /\ f.data.weights[1] = "sequential/dense/kernel"
        /\ Len(f.data.config.layers) = 3
        /\ f.data.config.layers[1].class_name = "InputLayer"
        /\ f.data.config.layers[2].class_name = second
        /\ \/ /\ Has(f.data.config.layers[1].config, "batch_shape")
              /\ f.data.config.layers[1].config.batch_shape = <<None>> \o shape
              /\ Has(f.data.config, "build_input_shape")
           \/ /\ Has(f.data.config.layers[1].config, "batch_input_shape")
              /\ f.data.config.layers[1].config.batch_input_shape = <<None>> \o shape
              /\ ~Has(f.data.config, "build_input_shape") }

\* model.json as main leaves it: patched (train_emotion_model.py), fixed
\* (train_visual_emoreact.py) or as the converter wrote it
SavedModelJson(s, raw) ==
    CASE s = "base" ->
           [ exists |-> TRUE, format |-> "compact", data |-> TrainPatch(raw.data) ]
      [] s = "emoreact" ->
           IF EmoReactApplies(raw.data)
           THEN [ exists |-> TRUE, format |-> "indent2", data |-> EmoReactFix(raw.data) ]
           ELSE raw
      [] OTHER -> raw

(***************************************************************************)
(* Spec: main() of one script, from its first statement to its return      *)
(*   pc: start -> checked -> loaded -> prepared -> split -> built ->       *)
(*       trained -> done;  "returned": the early return after an error     *)
(*       line;  "raised": an exception left main                           *)
(***************************************************************************)
Scripts == AUScripts \cup {"wav2vec2", "emoreact"}

\* at most MaxRows rows in a CSV file
MaxRows == 2

\* at most MaxAudio files in an emotion folder
MaxAudio == 5

MainAuNames == { "E01_CT_P_aus.csv", "E02_N_aus.csv" }

MainValNames == { "E01_CT_P_valences.csv", "E02_N_valences.csv" }

RowAUs ==
    { ZeroAUs,
      [ c \in Range(AU_COLUMNS) |->
          CASE c \in {"AU06_r", "AU12_r"} -> 1
            [] c = "AU04_r" -> 5
            [] OTHER -> 0 ] }

\* tables of k rows, the Image of row i being i
AuTables ==
    UNION { { [ i \in 1..k |-> [Image |-> i, aus |-> t[i]] ] : t \in [1..k -> RowAUs] } :
            k \in 0..MaxRows }

ValTables == { [ i \in 1..k |-> [Image |-> i] ] : k \in 0..MaxRows }

MainAuFiles ==
    { File(n, TRUE, t) : n \in MainAuNames, t \in AuTables }
    \cup { File(n, FALSE, << >>) : n \in MainAuNames }

MainValFiles ==
    { File(n, TRUE, t) : n \in MainValNames, t \in ValTables }
    \cup { File(n, FALSE, << >>) : n \in MainValNames }

NoAusDir == [exists |-> FALSE, files |-> << >>]

NoValencesDir == [exists |-> FALSE, files |-> {}]

NoAudioDir == [exists |-> FALSE, folders |-> << >>]

MainAusDirs ==
    { [exists |-> TRUE, files |-> l] :
        l \in { l \in Listings(MainAuFiles, MaxFiles) : Distinct(l) } }
    \cup { NoAusDir }

MainValencesDirs ==
    { [exists |-> TRUE, files |-> F] :
        F \in { F \in SUBSET MainValFiles :
                  \A f, g \in F : f.name = g.name => f = g } }
    \cup { NoValencesDir }

AudioNames == <<"a.wav", "b.mp3", "c.flac", "notes.txt", "e.wav", "f.wav">>

FolderNames == { "Fear", "Surprise" }

\* a folder holds the first k of AudioNames; only audio files can fail to load
AudioFolders ==
    UNION { { [ name |-> n, isdir |-> TRUE,
                files |-> [ i \in 1..k |->
                              [name |-> AudioNames[i], loadable |-> l[i]] ] ] :
              n \in FolderNames,
              l \in { l \in [1..k -> BOOLEAN] :
                        \A i \in 1..k : ~IsAudio(AudioNames[i]) => l[i] } } :
            k \in 0..MaxAudio }
    \cup { [name |-> n, isdir |-> FALSE, files |-> << >>] : n \in FolderNames }

AudioDirs ==
    { [exists |-> TRUE, folders |-> l] :
        l \in { l \in Listings(AudioFolders, 2) : Distinct(l) } }
    \cup { NoAudioDir }

Init ==
    /\ \/ /\ script \in AUScripts
          /\ aus_dir \in MainAusDirs
          /\ valences_dir \in MainValencesDirs
          /\ audio_dir = NoAudioDir
       \/ /\ script = "wav2vec2"
          /\ aus_dir = NoAusDir
          /\ valences_dir = NoValencesDir
          /\ audio_dir \in AudioDirs
       \/ /\ script = "emoreact"
          /\ aus_dir = NoAusDir
          /\ valences_dir = NoValencesDir
          /\ audio_dir = NoAudioDir
    /\ pc = "start"
    /\ data = << >>
    /\ warnings = << >>
    /\ IdleMap
    /\ IdleMain
    /\ IdleJson
    /\ IdleTrain

\* the checks of the input directories at the top of main;
\* os.makedirs(output_dir) where it is main's first statement
MissingChecked(s) ==
    CASE s = "colab" -> ~aus_dir.exists \/ ~valences_dir.exists
      [] s = "improved" -> ~aus_dir.exists
      [] OTHER -> FALSE

CheckInputs ==
    /\ pc = "start"
    /\ IF MissingChecked(script)
       THEN /\ printed_error' = TRUE
            /\ pc' = "returned"
            /\ UNCHANGED out_dir
       ELSE /\ pc' = "checked"
            /\ out_dir' = IF script \in {"wav2vec2", "emoreact"}
                          THEN [out_dir EXCEPT !.exists = TRUE]
                          ELSE out_dir
            /\ UNCHANGED printed_error
    /\ UNCHANGED <<trainVars, jsonVars, script, mapVars, fsVars, loadVars, audio_dir, audio, X, y,
                   scaler, model, fed, emotions_txt, scaler_json>>

\* load_dataset / load_mesd_dataset and the test for an empty data set
LoadAU ==
    /\ pc = "checked" /\ script \in AUScripts
    /\ LET r == load_dataset(aus_dir, valences_dir)
       IN  /\ pc' = IF r.raised THEN "raised" ELSE "loaded"
           /\ data' = IF r.raised THEN << >> ELSE r.data
           /\ warnings' = r.warnings
    /\ UNCHANGED <<trainVars, jsonVars, script, mapVars, fsVars, mainVars>>

LoadAudio ==
    /\ pc = "checked" /\ script = "wav2vec2"
    /\ audio' = load_mesd_dataset(audio_dir)
    /\ IF Len(audio') = 0
       THEN printed_error' = TRUE /\ pc' = "returned"
       ELSE UNCHANGED printed_error /\ pc' = "loaded"
    /\ UNCHANGED <<trainVars, jsonVars, script, mapVars, fsVars, loadVars, audio_dir, X, y, scaler,
                   model, fed, out_dir, emotions_txt, scaler_json>>

\* prepare_training_data of load_emoreact_dataset is not in the sources:
\* it returns or raises
LoadEmoReact ==
    /\ pc = "checked" /\ script = "emoreact"
    /\ pc' \in {"loaded", "raised"}
    /\ UNCHANGED <<trainVars, jsonVars, script, mapVars, fsVars, loadVars, mainVars>>

\* X, y = prepare_training_data(data) and the statistics printed from them:
\* X.shape[1] and y.min() raise on an empty data set
Prepare ==
    /\ pc = "loaded" /\ script \in AUScripts
    /\ X' = PrepareX(data)
    /\ y' = PrepareY(script, data)
    /\ pc' = IF Len(X') = 0 THEN "raised" ELSE "prepared"
    /\ UNCHANGED <<trainVars, jsonVars, script, mapVars, fsVars, loadVars, audio_dir, audio, scaler,
                   model, fed, out_dir, emotions_txt, scaler_json, printed_error>>

\* scaler.fit_transform(X) and train_test_split(X_scaled, y, test_size=0.2)
ScaleSplit ==
    /\ pc = "prepared" /\ script \in AUScripts
    /\ scaler' = ScalerFit(X)
    /\ pc' = IF NTrain(Len(X)) = 0 THEN "raised" ELSE "split"
    /\ UNCHANGED <<trainVars, jsonVars, script, mapVars, fsVars, loadVars, audio_dir, audio, X, y,
                   model, fed, out_dir, emotions_txt, scaler_json, printed_error>>

SplitAudio ==
    /\ pc = "loaded" /\ script = "wav2vec2"
    /\ \E ok \in SplitOutcomes(audio) : pc' = IF ok THEN "split" ELSE "raised"
    /\ UNCHANGED <<trainVars, jsonVars, script, mapVars, fsVars, loadVars, mainVars>>

\* build_frame_model / build_improved_model(X_train.shape[1], ...),
\* Wav2Vec2ForSequenceClassification.from_pretrained
Build ==
    /\ pc = "split"
    /\ model' = [ built |-> TRUE,
                  input_dim |-> IF script \in AUScripts THEN Shape1(X) ELSE 0 ]
    /\ pc' = "built"
    /\ UNCHANGED <<trainVars, jsonVars, script, mapVars, fsVars, loadVars, audio_dir, audio, X, y,
                   scaler, fed, out_dir, emotions_txt, scaler_json, printed_error>>

\* the files training itself leaves in output_dir (checkpoints)
TrainFiles(s) ==
    CASE s = "improved" -> {"best_model.h5"}
      [] s = "emoreact" -> {"best_model.keras"}
      [] s = "wav2vec2" -> {"checkpoint"}
      [] OTHER -> {}

\* what model.fit / evaluate / predict, trainer.train / evaluate / predict read
Samples(s) ==
    IF s = "wav2vec2" THEN [ k \in DOMAIN audio |-> GetItem(audio[k]) ]
    ELSE [ k \in DOMAIN X |->
             [ source |-> Frames(data)[k].prefix, zeros |-> FALSE, label |-> y[k] ] ]

Train ==
    /\ \/ pc = "built"
       \/ pc = "loaded" /\ script = "emoreact"
    /\ fed' = IF script = "emoreact" THEN << >> ELSE Samples(script)
    /\ out_dir' = IF TrainFiles(script) = {} THEN out_dir
                  ELSE [ exists |-> TRUE,
                         files |-> out_dir.files \cup TrainFiles(script) ]
    /\ pc' = "trained"
    /\ UNCHANGED <<trainVars, jsonVars, script, mapVars, fsVars, loadVars, audio_dir, audio, X, y,
                   scaler, model, emotions_txt, scaler_json, printed_error>>

\* a save step that writes no scaler
SavedFiles_noScaler(s) ==
    CASE s = "base" -> {"model.h5", "model.json", "emotions.txt"}
      [] s \in {"colab", "improved"} ->
           {"model.h5", "model.json", "emotions.txt", "metrics.json"}
      [] OTHER -> {}

\* the files main writes after training
SavedFiles(s) ==
    CASE s = "base" ->
           {"model.h5", "model.json", "group1-shard1of1.bin", "scaler.pkl",
            "emotions.txt"}
      [] s \in {"colab", "improved"} ->
           {"model.h5", "model.json", "group1-shard1of1.bin", "scaler.pkl",
            "scaler.json", "emotions.txt", "metrics.json"}
      [] s = "wav2vec2" ->
           {"model.safetensors", "config.json", "preprocessor_config.json",
            "metrics.json", "confusion_matrix.png"}
      [] s = "emoreact" ->
           {"visual_emotion_model.keras", "visual_emotion_model.h5",
            "architecture_config.json", "emotion_labels.json",
            "model_for_tfjs.keras", "tfjs_model/model.json"}

\* a scaler.json without the scale vector
ScalerJson_meanOnly(sc) == [fitted |-> TRUE, mean |-> sc.mean, scale |-> << >>]

\* scaler_json = {'mean': scaler.mean_.tolist(), 'scale': scaler.scale_.tolist()}
ScalerJson(sc) == [fitted |-> TRUE, mean |-> sc.mean, scale |-> sc.scale]

\* '\n'.join(list)
RECURSIVE JoinLines(_)
JoinLines(list) ==
    IF list = << >> THEN ""
    ELSE IF Len(list) = 1 THEN list[1]
    ELSE list[1] \o "\n" \o JoinLines(Tail(list))

\* f.write('\n'.join(EMOTIONS))
EmotionsTxt(s) == JoinLines(EMOTIONS(s))

Save ==
    /\ pc = "trained"
    /\ out_dir' = [exists |-> TRUE, files |-> out_dir.files \cup SavedFiles(script)]
    /\ emotions_txt' = IF "emotions.txt" \in SavedFiles(script)
                       THEN EmotionsTxt(script) ELSE emotions_txt
    /\ scaler_json' = IF "scaler.json" \in SavedFiles(script)
                      THEN ScalerJson(scaler) ELSE scaler_json
    /\ IF script = "wav2vec2" THEN UNCHANGED model_json
       ELSE \E raw \in ConverterOutput(
                           IF script = "emoreact" THEN "LSTM" ELSE "Dense",
                           IF script = "emoreact" THEN <<10, 12>> ELSE <<Shape1(X)>>) :
                model_json' = SavedModelJson(script, raw)
    /\ pc' = "done"
    /\ UNCHANGED <<trainVars, history, found, script, mapVars, fsVars, loadVars, audio_dir, audio,
                   X, y, scaler, model, fed, printed_error>>

Next ==
    \/ CheckInputs
    \/ LoadAU
    \/ LoadAudio
    \/ LoadEmoReact
    \/ Prepare
    \/ ScaleSplit
    \/ SplitAudio
    \/ Build
    \/ Train
    \/ Save

Spec == Init /\ [][Next]_vars

(***************************************************************************)
(* Claims about main                                                       *)
(***************************************************************************)
Canon == <<"anger", "sadness", "anxiety", "fear", "happiness", "guilt">>

\* the lines of a text
RECURSIVE Lines(_)
Lines(text) ==
    IF \A i \in 1..Len(text) : SubSeq(text, i, i) # "\n" THEN <<text>>
    ELSE LET i == CHOOSE i \in 1..Len(text) :
                      /\ SubSeq(text, i, i) = "\n"
                      /\ \A j \in 1..(i - 1) : SubSeq(text, j, j) # "\n"
         IN  <<SubSeq(text, 1, i - 1)>> \o Lines(SubSeq(text, i + 1, Len(text)))

IsModelFile(f) ==
    f \in {"model.h5", "model.json", "model.safetensors",
           "visual_emotion_model.keras", "visual_emotion_model.h5"}

IsScalerFile(f) == f \in {"scaler.pkl", "scaler.json"}

IsLabelList(f) == f \in {"emotions.txt", "emotion_labels.json"}

HasFile(P(_)) == \E f \in out_dir.files : P(f)

\* the AU file and the valence file a frame was read from could be read
AuInputLoadable(prefix) ==
    \E i \in DOMAIN aus_dir.files :
        /\ EndsWith(aus_dir.files[i].name, "_aus.csv")
        /\ Prefix(aus_dir.files[i].name) = prefix
        /\ aus_dir.files[i].ok
        /\ \E v \in valences_dir.files :
               v.name = prefix \o "_valences.csv" /\ v.ok

\* the audio file of a sample could be read
AudioInputLoadable(source) ==
    \E i \in DOMAIN audio_dir.folders :
        \E j \in DOMAIN audio_dir.folders[i].files :
            /\ audio_dir.folders[i].name \o "/" \o audio_dir.folders[i].files[j].name
                 = source
            /\ audio_dir.folders[i].files[j].loadable

InputLoadable(sample) ==
    IF script = "wav2vec2" THEN AudioInputLoadable(sample.source)
    ELSE AuInputLoadable(sample.source)

\* C2 (as stated): no sample whose input could not be loaded is handed to
\* training or evaluation, and none carries substituted data.
C2_NoSubstitutedSample ==
    \A k \in DOMAIN fed : InputLoadable(fed[k]) /\ ~fed[k].zeros

\* C2 (amended): in the AU scripts a missing valence file is the only
\* failure that is skipped (every other '_aus.csv' file was read, or main
\* stopped), and every sample handed to training was loaded; in the
\* Wav2Vec2 script a sample whose audio file could not be loaded is handed
\* to training as an all-zero waveform with label 0, and only such a sample
\* is substituted.
C2_OnlyAudioSubstituted ==
    /\ (script \in AUScripts /\ pc \notin {"start", "checked", "returned", "raised"}) =>
          \A i \in DOMAIN aus_dir.files :
              LET f == aus_dir.files[i]
              IN  EndsWith(f.name, "_aus.csv") =>
                    \/ /\ \E w \in DOMAIN warnings : warnings[w] = f.name
                       /\ ~ValenceExists(valences_dir, Prefix(f.name) \o "_valences.csv")
                    \/ /\ AuInputLoadable(Prefix(f.name))
                       /\ \E k \in DOMAIN data : data[k].prefix = Prefix(f.name)
    /\ script \in AUScripts =>
          \A k \in DOMAIN fed : InputLoadable(fed[k]) /\ ~fed[k].zeros
    /\ script = "wav2vec2" =>
          \A k \in DOMAIN fed :
              /\ fed[k].zeros <=> ~InputLoadable(fed[k])
              /\ fed[k].zeros => fed[k].label = 0

\* a Wav2Vec2 run trained on a substituted sample whose folder label is not 0
C2_Witness ==
    /\ script = "wav2vec2" /\ pc = "trained"
    /\ \E k \in DOMAIN fed : fed[k].zeros /\ audio[k].label # 0

\* C3 (as stated): whenever main runs to completion its output directory
\* exists and holds a model file, a scaler file and an emotion label list.
C3_OutputsAllScripts ==
    pc = "done" =>
        /\ out_dir.exists
        /\ HasFile(IsModelFile) /\ HasFile(IsScalerFile) /\ HasFile(IsLabelList)

\* C3 (amended): whenever main runs through its save step the output
\* directory exists and holds a model file; it also holds a scaler file and
\* a label list in the three AU scripts, a label list but no scaler file in
\* the EmoReact script, and neither in the Wav2Vec2 script.
C3_OutputsPerScript ==
    pc = "done" =>
        /\ out_dir.exists
        /\ HasFile(IsModelFile)
        /\ script \in AUScripts => HasFile(IsScalerFile) /\ HasFile(IsLabelList)
        /\ script = "emoreact" => ~HasFile(IsScalerFile) /\ HasFile(IsLabelList)
        /\ script = "wav2vec2" => ~HasFile(IsScalerFile) /\ ~HasFile(IsLabelList)

C3_Witness == pc = "done" /\ script = "base" /\ "scaler.pkl" \in out_dir.files

\* C4 (as stated): every script that fits a scaler writes it to the output
\* directory as JSON with a 'mean' and a 'scale' vector, one entry per
\* input feature each.
C4_ScalerJsonAllScripts ==
    (pc = "done" /\ scaler.fitted) =>
        /\ "scaler.json" \in out_dir.files
        /\ scaler_json.fitted
        /\ Len(scaler_json.mean) = Len(X[1])
        /\ Len(scaler_json.scale) = Len(X[1])

\* C4 (amended): the Colab and the improved script write the fitted scaler
\* as scaler.json with a 'mean' and a 'scale' vector of one entry per input
\* feature; train_emotion_model.py writes it as scaler.pkl only.
C4_ScalerJsonColabImproved ==
    (pc = "done" /\ scaler.fitted) =>
        /\ script \in {"colab", "improved"} =>
              /\ "scaler.json" \in out_dir.files
              /\ scaler_json.fitted
              /\ Len(scaler_json.mean) = Len(X[1])
              /\ Len(scaler_json.scale) = Len(X[1])
              /\ scaler_json.mean = scaler.mean /\ scaler_json.scale = scaler.scale
        /\ script = "base" =>
              /\ "scaler.pkl" \in out_dir.files
              /\ "scaler.json" \notin out_dir.files
              /\ ~scaler_json.fitted

C4_Witness ==
    /\ pc = "done" /\ script = "improved" /\ scaler_json.fitted
    /\ \E c \in DOMAIN scaler_json.scale : scaler_json.scale[c].sqrt_of # One

\* C5: in each AU script the input dimension the model is built with equals
\* the dimensionality of the fitted scaler, and both equal the number of AU
\* feature columns, 12.
C5_InputDimIsScalerDim ==
    script \in AUScripts =>
        /\ scaler.fitted => Len(scaler.mean) = 12 /\ Len(scaler.scale) = 12
        /\ model.built => /\ scaler.fitted
                          /\ model.input_dim = Len(scaler.mean)
                          /\ model.input_dim = 12

\* a model built from a data set whose row count differs from its width
C5_Witness ==
    /\ script \in AUScripts /\ model.built /\ Len(X) >= 2 /\ Len(X) # 12

\* C9: one emotion order, anger, sadness, anxiety, fear, happiness, guilt:
\* entry i of every label row made by map_aus_to_emotions is the score of
\* emotion i, a label index made by load_mesd_dataset is the index of the
\* emotion its folder maps to, and line i of emotions.txt is emotion i.
C9_OneEmotionOrder ==
    /\ script \in AUScripts =>
          \A k \in DOMAIN y :
              /\ Len(y[k]) = Len(Canon)
              /\ \A i \in DOMAIN Canon :
                     y[k][i] = Scores(script, Frames(data)[k].aus,
                                      Frames(data)[k].valence_label)[Canon[i]]
    /\ "emotions.txt" \in out_dir.files => Lines(emotions_txt) = Canon
    /\ script = "wav2vec2" =>
          \A k \in DOMAIN audio :
              Canon[audio[k].label + 1] = MesdToOur(Lower(audio[k].folder))

\* a finished AU run whose labels tell happiness from anger
C9_Witness ==
    /\ script \in AUScripts /\ pc = "done" /\ Lines(emotions_txt) = Canon
    /\ \E k \in DOMAIN y : y[k][5] # y[k][1]

\* the inputs the three scripts require
C10_InputMissing ==
    CASE script \in {"colab", "improved"} -> ~aus_dir.exists \/ ~valences_dir.exists
      [] script = "wav2vec2" -> Len(load_mesd_dataset(audio_dir)) = 0
      [] OTHER -> FALSE

\* C10: in the Colab, improved and Wav2Vec2 scripts, when a required input
\* is missing, main prints an error and returns, before a model is built or
\* trained and before any model, scaler, label or metrics file is written.
C10_MissingInputStopsMain ==
    C10_InputMissing =>
        /\ ~model.built /\ fed = << >> /\ out_dir.files = {}
        /\ pc \in {"done", "returned", "raised"} => pc = "returned" /\ printed_error

(***************************************************************************)
(* SpecJson: a model.json as the converter wrote it, then the scripts that *)
(* rewrite it (the patch in main of train_emotion_model.py,                *)
(* restore_and_fix_inputlayer.py, the fix in main of                       *)
(* train_visual_emoreact.py) and check_weights.py, run in any order        *)
(***************************************************************************)
\* at most MaxOps runs on one model.json
MaxOps == 3

InitJson ==
    /\ script \in {"base", "emoreact"}
    /\ model_json \in RawFiles \cup (IF script = "emoreact" THEN {NoModelJson} ELSE {})
    /\ history = << >>
    /\ found = << >>
    /\ IdleMap
    /\ IdleLoad
    /\ IdleTrain

\* one more run recorded in history
Ran(op) ==
    /\ Len(history) < MaxOps
    /\ history' = Append(history, [op |-> op, before |-> model_json, found |-> found])
    /\ UNCHANGED <<trainVars, script, mapVars, fsVars, pc, loadVars, mainVars>>

\* train_emotion_model.py, main: model.json is read, patched and written
RunTrainPatch ==
    /\ script = "base" /\ model_json.exists
    /\ model_json' = [ exists |-> TRUE, format |-> "compact",
                       data |-> TrainPatch(model_json.data) ]
    /\ UNCHANGED found
    /\ Ran("train_patch")

\* restore_and_fix_inputlayer.py, the whole script
RunRestore ==
    /\ script = "base" /\ model_json.exists
    /\ model_json' = [ exists |-> TRUE, format |-> "compact",
                       data |-> Restore(model_json.data) ]
    /\ UNCHANGED found
    /\ Ran("restore")

\* check_weights.py, the whole script
RunCheckWeights ==
    /\ script = "base" /\ model_json.exists
    /\ found' = check_weights(model_json.data)
    /\ UNCHANGED model_json
    /\ Ran("check_weights")

\* train_visual_emoreact.py, main: the fix of tfjs_model/model.json
RunEmoReactFix ==
    /\ script = "emoreact"
    /\ model_json' =
         IF model_json.exists /\ EmoReactApplies(model_json.data)
         THEN [ exists |-> TRUE, format |-> "indent2",
                data |-> EmoReactFix(model_json.data) ]
         ELSE model_json
    /\ UNCHANGED found
    /\ Ran("emoreact_fix")

NextJson ==
    \/ RunTrainPatch
    \/ RunRestore
    \/ RunCheckWeights
    \/ RunEmoReactFix

SpecJson == InitJson /\ [][NextJson]_vars

(***************************************************************************)
(* Claims about the rewrites of model.json                                 *)
(***************************************************************************)
\* model.json after run k
After(k) == IF k = Len(history) THEN model_json ELSE history[k + 1].before

Runs(op) == { k \in DOMAIN history : history[k].op = op }

LayersOf(file) == file.data.config.layers

FirstIs(file, class_name) ==
    /\ file.exists /\ LayersOf(file) # << >>
    /\ LayersOf(file)[1].class_name = class_name

\* the keys under which an InputLayer config gives a batch shape
BatchKeys == {"batch_shape", "batch_input_shape", "batchInputShape"}

\* does the document give the input shape of the model, and which
KnowsShape(file) ==
    \/ \E key \in BatchKeys \cup {"inputShape"} : Has(LayersOf(file)[1].config, key)
    \/ Has(file.data.config, "build_input_shape")

ModelInputShape(file) ==
    LET c == LayersOf(file)[1].config
    IN  IF Has(c, "inputShape") THEN c.inputShape
        ELSE IF \E key \in BatchKeys : Has(c, key)
        THEN Tail(c[CHOOSE key \in BatchKeys : Has(c, key)])
        ELSE Tail(file.data.config.build_input_shape)

\* C11: the patch of train_emotion_model.py, applied to a Sequential model
\* whose first layer is an InputLayer, removes that layer (one layer less),
\* gives the new first layer the input shape as 'inputShape', and sets
\* build_input_shape, when present, to [None] followed by the shape.
C11_PatchMovesInputShape ==
    \A k \in Runs("train_patch") :
        LET b == history[k].before
            a == After(k)
        IN  (b.data.class_name = "Sequential" /\ FirstIs(b, "InputLayer")
               /\ KnowsShape(b)) =>
                /\ Len(LayersOf(a)) = Len(LayersOf(b)) - 1
                /\ LayersOf(a) # << >>
                /\ Has(LayersOf(a)[1].config, "inputShape")
                /\ LayersOf(a)[1].config.inputShape = ModelInputShape(b)
                /\ Has(b.data.config, "build_input_shape") =>
                      /\ Has(a.data.config, "build_input_shape")
                      /\ a.data.config.build_input_shape
                           = <<None>> \o ModelInputShape(b)

\* the first layer is a Dense layer carrying 'inputShape'
DenseForm(file) ==
    FirstIs(file, "Dense") /\ Has(LayersOf(file)[1].config, "inputShape")

\* C12: restore_and_fix_inputlayer, applied to a model.json whose first
\* layer is a Dense layer carrying 'inputShape', inserts an InputLayer at
\* index 0 whose config 'inputShape' is that shape, removes 'inputShape'
\* from the Dense layer (now second), adds exactly one layer, and sets
\* build_input_shape, when present, to [None] followed by the shape.
C12_RestoreInsertsInputLayer ==
    \A k \in Runs("restore") :
        LET b == history[k].before
            a == After(k)
            shape == LayersOf(b)[1].config.inputShape
        IN  DenseForm(b) =>
                /\ Len(LayersOf(a)) = Len(LayersOf(b)) + 1
                /\ LayersOf(a)[1].class_name = "InputLayer"
                /\ LayersOf(a)[1].config.inputShape = shape
                /\ LayersOf(a)[2].class_name = "Dense"
                /\ ~Has(LayersOf(a)[2].config, "inputShape")
                /\ LayersOf(a)[2].config = Pop(LayersOf(b)[1].config, "inputShape")
                /\ Tail(Tail(LayersOf(a))) = Tail(LayersOf(b))
                /\ Has(a.data.config, "build_input_shape")
                     <=> Has(b.data.config, "build_input_shape")
                /\ Has(b.data.config, "build_input_shape") =>
                      a.data.config.build_input_shape = <<None>> \o shape

\* a run of restore_and_fix_inputlayer on the Dense form, with
\* build_input_shape present
C12_Witness ==
    \E k \in Runs("restore") :
        /\ DenseForm(history[k].before)
        /\ Has(history[k].before.data.config, "build_input_shape")
        /\ FirstIs(After(k), "InputLayer")

\* C13: for a Sequential model.json whose first layer is a Dense layer
\* carrying 'inputShape', restore_and_fix_inputlayer followed by the patch
\* of train_emotion_model.py gives back the original layer list and the
\* original build_input_shape.
C13_RestoreThenPatchRoundTrip ==
    \A k \in Runs("restore") :
        LET b == history[k].before
        IN  (k < Len(history) /\ history[k + 1].op = "train_patch"
               /\ b.data.class_name = "Sequential" /\ DenseForm(b)) =>
                LET a == After(k + 1)
                IN  /\ LayersOf(a) = LayersOf(b)
                    /\ Has(a.data.config, "build_input_shape")
                         <=> Has(b.data.config, "build_input_shape")
                    /\ Has(b.data.config, "build_input_shape") =>
                          a.data.config.build_input_shape
                            = b.data.config.build_input_shape

\* the patch wrote the Dense form, then restore_and_fix_inputlayer and the
\* patch ran on it
C13_Witness ==
    /\ Len(history) = 3
    /\ history[1].op = "train_patch" /\ FirstIs(history[1].before, "InputLayer")
    /\ history[2].op = "restore" /\ DenseForm(history[2].before)
    /\ history[2].before.data.class_name = "Sequential"
    /\ Has(history[2].before.data.config, "build_input_shape")
    /\ history[3].op = "train_patch" /\ FirstIs(history[3].before, "InputLayer")
    /\ LayersOf(model_json) = LayersOf(history[2].before)

InputLayerCount(file) ==
    Cardinality({ i \in DOMAIN LayersOf(file) : LayersOf(file)[i].class_name = "InputLayer" })

\* C14: both rewrites are idempotent: a second run of
\* restore_and_fix_inputlayer, or of the patch of train_emotion_model.py,
\* right after the first leaves model.json as the first run left it (no
\* second InputLayer is inserted); a model whose first layer is neither an
\* InputLayer nor a Dense layer carrying 'inputShape' is written back with
\* its topology unchanged.
C14_RewritesIdempotent ==
    \A k \in DOMAIN history :
        LET op == history[k].op
            b == history[k].before
            a == After(k)
        IN  op \in {"restore", "train_patch"} =>
              /\ (k > 1 /\ history[k - 1].op = op) =>
                    /\ a = b
                    /\ InputLayerCount(a) = InputLayerCount(b)
              /\ (~FirstIs(b, "InputLayer") /\ ~DenseForm(b)) =>
                    a.data = b.data

\* two runs of the patch in a row, the first of which changed model.json
C14_Witness ==
    /\ Len(history) >= 2
    /\ history[1].op = "train_patch" /\ history[2].op = "train_patch"
    /\ history[1].before.data # history[2].before.data
    /\ After(2) = history[2].before

\* C15: the patch of train_emotion_model.py, applied to a model that is
\* not Sequential and whose first layer is an InputLayer, keeps that layer
\* and the number of layers, leaves its config without 'batch_shape',
\* 'batchInputShape' and 'batch_input_shape', and leaves it with
\* 'inputShape' giving the input shape of the model.
C15_PatchFixesInputLayer ==
    \A k \in Runs("train_patch") :
        LET b == history[k].before
            a == After(k)
        IN  (b.data.class_name # "Sequential" /\ FirstIs(b, "InputLayer")
               /\ KnowsShape(b)) =>
                /\ Len(LayersOf(a)) = Len(LayersOf(b))
                /\ LayersOf(a)[1].class_name = "InputLayer"
                /\ \A key \in BatchKeys : ~Has(LayersOf(a)[1].config, key)
                /\ Has(LayersOf(a)[1].config, "inputShape")
                /\ LayersOf(a)[1].config.inputShape = ModelInputShape(b)

\* C16: the fix in main of train_visual_emoreact.py: if the config of the
\* first layer has 'batch_shape', afterwards it has 'inputShape' equal to
\* batch_shape without its first element and no 'batch_shape'; if not,
\* model.json is not rewritten and stays as the converter produced it.
C16_BatchShapeBecomesInputShape ==
    \A k \in Runs("emoreact_fix") :
        LET b == history[k].before
            a == After(k)
        IN  IF b.exists /\ Has(LayersOf(b)[1].config, "batch_shape")
            THEN /\ Has(LayersOf(a)[1].config, "inputShape")
                 /\ LayersOf(a)[1].config.inputShape
                      = Tail(LayersOf(b)[1].config.batch_shape)
                 /\ ~Has(LayersOf(a)[1].config, "batch_shape")
                 /\ Pop(LayersOf(a)[1].config, "inputShape")
                      = Pop(LayersOf(b)[1].config, "batch_shape")
                 /\ Tail(LayersOf(a)) = Tail(LayersOf(b))
            ELSE a = b

\* a fix that rewrote model.json
C16_Witness ==
    \E k \in Runs("emoreact_fix") :
        /\ history[k].before.format = "converter"
        /\ Has(LayersOf(history[k].before)[1].config, "batch_shape")
        /\ After(k).format = "indent2"
        /\ Len(LayersOf(After(k))[1].config.inputShape) = 2

\* class, name and config of the layers other than InputLayers, the
\* 'inputShape' key of a leading Dense layer left out
OtherLayers(file) ==
    LET rest == SelectSeq(LayersOf(file), LAMBDA l : l.class_name # "InputLayer")
    IN  [ i \in DOMAIN rest |->
            [ class_name |-> rest[i].class_name,
              name |-> IF Has(rest[i], "name") THEN rest[i].name ELSE "",
              config |-> IF i = 1 /\ rest[i].class_name = "Dense"
                         THEN Pop(rest[i].config, "inputShape")
                         ELSE rest[i].config ] ]

\* C17: neither the patch of train_emotion_model.py nor
\* restore_and_fix_inputlayer changes weightsManifest or the class, name or
\* config of a layer other than the InputLayer and the 'inputShape' key of
\* the first Dense layer; a weight whose layer check_weights reports as
\* found before the rewrite is reported as found after it.
C17_RewritesKeepWeightsAndLayers ==
    \A k \in Runs("train_patch") \cup Runs("restore") :
        LET b == history[k].before
            a == After(k)
        IN  /\ a.data.weights = b.data.weights
            /\ OtherLayers(a) = OtherLayers(b)
            /\ \A w \in DOMAIN b.data.weights :
                   check_weights(b.data)[w] = "found"
                     => check_weights(a.data)[w] = "found"
            /\ (k > 1 /\ k < Len(history) /\ history[k - 1].op = "check_weights"
                  /\ history[k + 1].op = "check_weights") =>
                   LET after == IF k + 1 = Len(history) THEN found
                                ELSE history[k + 2].found
                   IN  \A w \in DOMAIN history[k].found :
                           history[k].found[w] = "found" => after[w] = "found"

\* check_weights, a patch that removed the InputLayer, check_weights again,
\* with a weight found and a weight not found
C17_Witness ==
    /\ Len(history) = 3
    /\ history[1].op = "check_weights" /\ history[2].op = "train_patch"
    /\ history[3].op = "check_weights"
    /\ Len(LayersOf(model_json)) < Len(LayersOf(history[2].before))
    /\ \E w \in DOMAIN found : found[w] = "found" /\ history[2].found[w] = "found"
    /\ \E w \in DOMAIN found : found[w] = "not found"

(***************************************************************************)
(* More claims about map_aus_to_emotions                                   *)
(***************************************************************************)
\* C18: map_aus_to_emotions of the Colab and of the improved script gates
\* every emotion on valence: for 'P' anger, sadness, anxiety, fear and
\* guilt are exactly 0, for 'N' happiness is exactly 0, for any other label
\* all six values are exactly 0, whatever the AU values.
C18_ValenceGates ==
    (Called /\ script \in {"colab", "improved"}) =>
        \A e \in DOMAIN ZeroScores :
            (CASE valence_label = "P" -> e # "happiness"
               [] valence_label = "N" -> e = "happiness"
               [] OTHER -> TRUE)
              => REq(ret[Idx(e)], Zero)

\* an 'N' call with AU06 set whose anger is not 0
C18_Witness ==
    /\ Called /\ script = "colab" /\ valence_label = "N"
    /\ Has(au_values, "AU06_r") /\ au_values["AU06_r"] > 0
    /\ ~REq(ret[Idx("anger")], Zero)
    /\ REq(ret[Idx("happiness")], Zero)

\* au_values with the value of one AU changed
WithAU(au, key, value) == Put(au, key, value)

\* two returned arrays hold the same numbers
SameArray(a, b) ==
    /\ Len(a) = Len(b)
    /\ \A i \in DOMAIN a : REq(a[i], b[i])

RECURSIVE RowsBefore(_)
RowsBefore(n) == IF n = 0 THEN 0 ELSE RowsBefore(n - 1) + Len(data[n].data)

\* C20: prepare_training_data returns X and y with the same number of rows,
\* one per row of every loaded entry's merged table, in order; row k of X
\* is the frame's 12 AU values in AU_COLUMNS order and row k of y is
\* map_aus_to_emotions of the frame's AU values with the valence label of
\* its file, the last '_'-separated component of the file prefix.
C20_RowsOfXAndY ==
    (script \in AUScripts /\ pc \in {"prepared", "split", "built", "trained", "done"}) =>
        /\ Len(X) = Len(y)
        /\ Len(X) = RowsBefore(Len(data))
        /\ \A i \in DOMAIN data :
             \A j \in DOMAIN data[i].data :
                 LET k == RowsBefore(i - 1) + j
                     row == data[i].data[j].aus
                 IN  /\ Len(X[k]) = 12
                     /\ \A c \in 1..12 : X[k][c] = row[AU_COLUMNS[c]]
                     /\ y[k] = map_aus_to_emotions(script, row, SplitLast(data[i].prefix))

\* two loaded entries with rows and different valence labels, whose label
\* rows differ
C20_Witness ==
    /\ script \in AUScripts /\ pc = "prepared"
    /\ Len(data) = 2
    /\ data[1].data # << >> /\ data[2].data # << >>
    /\ SplitLast(data[1].prefix) # SplitLast(data[2].prefix)
    /\ Len(X) = Len(data[1].data) + Len(data[2].data)
    /\ y[1] # y[Len(y)]

(***************************************************************************)
(* Class weights: calculate_class_weights of train_emotion_model_improved  *)
(* and compute_class_weights of train_visual_emoreact                      *)
(*                                                                         *)
(* Numbers.  The source adds 1e-7 to a denominator.  The number            *)
(* n / (d + e * 1e-7), e \in {0, 1}, is the record [n, d, e]; two of them  *)
(* are compared by the sign of a + b * 1e-7 for integers a, b, which is    *)
(* the sign of a unless a = 0 (|b| stays far below 10^7).                  *)
(***************************************************************************)
E(n, d, e) == [n |-> n, d |-> d, e |-> e]

\* sign of a + b * 1e-7
SignEps(a, b) ==
    IF a > 0 THEN 1
    ELSE IF a < 0 THEN -1
    ELSE IF b > 0 THEN 1
    ELSE IF b < 0 THEN -1
    ELSE 0

\* sign of a - b, both denominators positive
ECmp(a, b) == SignEps(a.n * b.d - b.n * a.d, a.n * b.e - b.n * a.e)

ELt(a, b) == ECmp(a, b) < 0

ELe(a, b) == ECmp(a, b) <= 0

EEq(a, b) == ECmp(a, b) = 0

\* Python's min(a, b) and max(a, b): the first argument wins a tie
EMin(a, b) == IF ELt(b, a) THEN b ELSE a

EMax(a, b) == IF ELt(a, b) THEN b ELSE a

\* np.sum(y[:, i] > threshold): the rows whose column i (0-based) is above
\* the threshold
PosCount(rows, i, threshold) ==
    Cardinality({ r \in DOMAIN rows : RLt(threshold, rows[r][i + 1]) })

\* train_emotion_model_improved.py, calculate_class_weights without the cap
calculate_class_weights_uncapped(rows) ==
    LET total == Len(rows)
    IN  [ i \in 0..(Len(EMOTIONS("improved")) - 1) |->
            LET pos == PosCount(rows, i, R(1, 10))
            IN  IF pos > 0 THEN E(total, 2 * pos, 0) ELSE E(1, 1, 0) ]

\* train_emotion_model_improved.py, calculate_class_weights: index -> weight
calculate_class_weights(rows) ==
    LET total == Len(rows)
    IN  [ i \in 0..(Len(EMOTIONS("improved")) - 1) |->
            LET pos == PosCount(rows, i, R(1, 10))
                weight == E(total, 2 * pos, 0)
            IN  IF pos > 0
                THEN EMax(E(1, 1, 0), EMin(E(10, 1, 0), weight))
                ELSE E(1, 1, 0) ]

\* the index of 'valence' in EMOTION_LABELS, the default of valence_idx
valence_idx == 8

\* compute_class_weights with the weight positives / negatives
compute_class_weights_proportional(rows) ==
    [ i \in 0..(valence_idx - 1) |->
        LET positives == PosCount(rows, i, R(1, 2))
            negatives == Len(rows) - positives
        IN  IF negatives = 0
            THEN E(10, 1, 0)
            ELSE EMin(E(positives, negatives, 1), E(10, 1, 0)) ]

\* train_visual_emoreact.py, compute_class_weights: the array, index 0 first
compute_class_weights(rows) ==
    [ i \in 0..(valence_idx - 1) |->
        LET positives == PosCount(rows, i, R(1, 2))
            negatives == Len(rows) - positives
        IN  IF positives = 0
            THEN E(10, 1, 0)
            ELSE EMin(E(negatives, positives, 1), E(10, 1, 0)) ]

\* the class-weight function of a script
ClassWeights(s, rows) ==
    IF s = "improved" THEN calculate_class_weights(rows)
    ELSE compute_class_weights(rows)

(***************************************************************************)
(* SpecWeights: one call of the class-weight function of a script on a     *)
(* label matrix                                                            *)
(***************************************************************************)
\* at most MaxRepeat rows of each kind in a label matrix
MaxRepeat == 10

\* the columns of a label row: 6 emotions, or 8 emotions and the valence
LabelColumns(s) == IF s = "improved" THEN Len(EMOTIONS("improved")) ELSE valence_idx + 1

\* four kinds of label row: the first two classes present, only the first
\* class present, no class present (a label exactly at the threshold of
\* calculate_class_weights is not above it), every class present
LabelRow(s, kind) ==
    [ c \in 1..LabelColumns(s) |->
        CASE kind = "two" -> IF c <= 2 THEN One ELSE Zero
          [] kind = "one" -> IF c = 1 THEN R(1, 5) ELSE IF c = 2 THEN R(1, 10) ELSE Zero
          [] kind = "none" -> IF c = LabelColumns(s) /\ s = "emoreact" THEN R(3, 1) ELSE Zero
          [] OTHER -> One ]

RECURSIVE Repeat(_, _)
Repeat(row, n) == IF n = 0 THEN << >> ELSE <<row>> \o Repeat(row, n - 1)

\* the label matrices: at least one row
LabelMatrices(s) ==
    { Repeat(LabelRow(s, "two"), a) \o Repeat(LabelRow(s, "one"), b)
        \o Repeat(LabelRow(s, "none"), c) \o Repeat(LabelRow(s, "all"), d) :
      a \in 0..1, b \in 0..MaxRepeat, c \in 0..MaxRepeat, d \in 0..1 }
    \ { << >> }

InitWeights ==
    /\ script \in {"improved", "emoreact"}
    /\ y_train \in LabelMatrices(script)
    /\ class_weights = << >>
    /\ IdleAug
    /\ IdleMetric
    /\ IdleMap
    /\ IdleLoad
    /\ IdleJson

\* class_weights = calculate_class_weights(y_train), or compute_class_weights
CallClassWeights ==
    /\ class_weights = << >>
    /\ class_weights' = ClassWeights(script, y_train)
    /\ UNCHANGED <<y_train, augVars, metricVars, jsonVars, script, mapVars, fsVars, pc,
                   loadVars, mainVars>>

NextWeights == CallClassWeights

SpecWeights == InitWeights /\ [][NextWeights]_vars

(***************************************************************************)
(* Claims about the class weights                                          *)
(***************************************************************************)
\* the threshold above which a label counts as positive
Threshold(s) == IF s = "improved" THEN R(1, 10) ELSE R(1, 2)

WeightsCalled == class_weights # << >>

Positives(i) == PosCount(y_train, i, Threshold(script))

\* C21: calculate_class_weights returns a weight for each of the 6 emotion
\* indices, every weight lies between 1 and 10 inclusive, and an emotion
\* with no sample above 0.1 has weight 1.0
C21_WeightsBetween1And10 ==
    (WeightsCalled /\ script = "improved") =>
        /\ DOMAIN class_weights = 0..5
        /\ \A i \in DOMAIN class_weights :
              /\ ELe(E(1, 1, 0), class_weights[i])
              /\ ELe(class_weights[i], E(10, 1, 0))
              /\ Positives(i) = 0 => EEq(class_weights[i], E(1, 1, 0))

\* C21 witness: a matrix with a class that the cap at 10 cuts, a class that
\* the floor at 1 lifts and a class with no sample above 0.1
C21_Witness ==
    /\ WeightsCalled /\ script = "improved"
    /\ \E i, j, k \in DOMAIN class_weights :
          /\ Positives(i) > 0 /\ Len(y_train) > 20 * Positives(i)
          /\ Positives(j) > 0 /\ Len(y_train) < 2 * Positives(j)
          /\ Positives(k) = 0

\* C21 witness: every sample of every class is above 0.1
C21_WitnessAllPositive ==
    /\ WeightsCalled /\ script = "improved"
    /\ Len(y_train) = 1
    /\ \A i \in DOMAIN class_weights : Positives(i) = Len(y_train)

\* C22 as claimed: in both class-weight functions a class with fewer
\* positive samples never receives a lower weight than a class with more
C22_FewerPositivesNeverLower ==
    WeightsCalled =>
        \A i, j \in DOMAIN class_weights :
            Positives(i) < Positives(j) => ELe(class_weights[j], class_weights[i])

\* C22 amended: compute_class_weights orders all classes that way;
\* calculate_class_weights orders the classes that have a sample above 0.1,
\* and gives a class without one the weight 1.0, the lowest weight
C22_FewerPositivesNeverLowerPresent ==
    WeightsCalled =>
        \A i, j \in DOMAIN class_weights :
            /\ (Positives(i) < Positives(j) /\ (script = "emoreact" \/ Positives(i) > 0))
                  => ELe(class_weights[j], class_weights[i])
            /\ (script = "improved" /\ Positives(i) = 0)
                  => /\ EEq(class_weights[i], E(1, 1, 0))
                     /\ ELe(class_weights[i], class_weights[j])

\* C22 witness: two classes with samples, the rarer one weighs strictly
\* more, and a class without samples
C22_Witness ==
    /\ WeightsCalled
    /\ \E i, j, k \in DOMAIN class_weights :
          /\ 0 < Positives(i) /\ Positives(i) < Positives(j)
          /\ ELt(class_weights[j], class_weights[i])
          /\ Positives(k) = 0

(***************************************************************************)
(* train_visual_emoreact.py: augment_data and the output bias of           *)
(* train_model                                                             *)
(*                                                                         *)
(* An array X of shape (N, Time, Feat) is a sequence of N samples, a       *)
(* sample a sequence of Time frames, a frame a sequence of Feat rationals. *)
(* The random draws of augment_data (noise, scale, start) are inputs of    *)
(* the call.                                                               *)
(***************************************************************************)
RAdd(a, b) == R(a.n * b.d + b.n * a.d, a.d * b.d)

RMul(a, b) == R(a.n * b.n, a.d * b.d)

\* np.random.randint(low, high): the integers from low to high - 1
RandInt(low, high) == low..(high - 1)

\* mask_len = max(1, int(X.shape[1] * 0.1)); int(T * 0.1) is T \div 10 for
\* every T a double multiplies exactly enough (checked up to 200000)
MaskLen(T) == IF 1 < T \div 10 THEN T \div 10 ELSE 1

ZeroFrame(frame) == [ f \in DOMAIN frame |-> Zero ]

\* X_masked[i, start:start+mask_len, :] = 0, start counted from 0
MaskSample(sample, start, mask_len) ==
    [ t \in DOMAIN sample |->
        IF start < t /\ t <= start + mask_len THEN ZeroFrame(sample[t]) ELSE sample[t] ]

\* the masked copy: lines 87-91
MaskAll(Xa, starts) ==
    LET T == Len(Xa[1])
        mask_len == MaskLen(T)
    IN  [ i \in DOMAIN Xa |->
            IF T > mask_len THEN MaskSample(Xa[i], starts[i], mask_len) ELSE Xa[i] ]

\* X + noise
AddNoise(Xa, noise) ==
    [ i \in DOMAIN Xa |-> [ t \in DOMAIN Xa[i] |-> [ f \in DOMAIN Xa[i][t] |->
        RAdd(Xa[i][t][f], noise[i][t][f]) ] ] ]

\* X * scale, scale of shape (N, 1, 1)
Scale(Xa, scale) ==
    [ i \in DOMAIN Xa |-> [ t \in DOMAIN Xa[i] |-> [ f \in DOMAIN Xa[i][t] |->
        RMul(Xa[i][t][f], scale[i]) ] ] ]

\* augment_data with X_masked = X in place of X_masked = X.copy(): the
\* masking writes into the caller's array, which np.concatenate reads last
augment_data_inplace(Xa, ya, noise, scale, starts) ==
    LET X_masked == MaskAll(Xa, starts)
    IN  [ X_aug |-> X_masked \o AddNoise(Xa, noise) \o Scale(Xa, scale) \o X_masked,
          y_aug |-> ya \o ya \o ya \o ya,
          X |-> X_masked,
          y |-> ya ]

\* augment_data(X, y): the two arrays returned, and the arguments X and y
\* as the call leaves them
augment_data(Xa, ya, noise, scale, starts) ==
    [ X_aug |-> Xa \o AddNoise(Xa, noise) \o Scale(Xa, scale) \o MaskAll(Xa, starts),
      y_aug |-> ya \o ya \o ya \o ya,
      X |-> Xa,
      y |-> ya ]

\* a float that np.log returned: finite or not, and the argument of the
\* logarithm; np.log(0) is -inf
NpLog(a) == [ finite |-> a.n > 0, log_of |-> a ]

\* the float 0.0, the logarithm of 1
Float0 == [ finite |-> TRUE, log_of |-> E(1, 1, 0) ]

\* train_model, lines 512-518: initial_bias, index 0 first, 0.0 appended
\* for the valence
InitialBias(ya) ==
    LET total_counts == Len(ya)
    IN  [ i \in 0..valence_idx |->
            IF i < valence_idx
            THEN LET pos == PosCount(ya, i, R(1, 2))
                 IN  NpLog(E(pos, total_counts - pos, 1))
            ELSE Float0 ]

(***************************************************************************)
(* SpecTrain: train_model up to the call of build_visual_crnn_model        *)
(***************************************************************************)
\* at most MaxSamples training samples
MaxSamples == 2

\* at most MaxFrames frames in the training samples together
MaxFrames == 40

\* the sequence lengths: too short to mask, masked by one frame, masked by
\* two frames
TimeLengths == {1, 2, 3, 10, 20}

\* the training samples: every value different and not zero, or zero
\* frames between other frames
TrainSample(kind, i, T) ==
    [ t \in 1..T |->
        IF kind = "ramp" THEN <<R(20 * i + t, 1), One>>
        ELSE IF t % 2 = 1 THEN <<Zero, Zero>>
        ELSE <<R(i, 1), R(t, 2)>> ]

\* the training labels: 8 emotion labels 0/1 and the valence; "mixed" has
\* a class present in the first sample only, a class present in every
\* sample and classes never present, "full" has every class in every sample
TrainLabel(kind, i) ==
    [ c \in 1..(valence_idx + 1) |->
        IF c = valence_idx + 1 THEN R(i, 1)
        ELSE IF kind = "full" THEN One
        ELSE IF c = 1 THEN (IF i = 1 THEN One ELSE Zero)
        ELSE IF c = 2 THEN One
        ELSE Zero ]

\* np.std(X) = 0: every value of X is the same
AllEqual(Xa) ==
    \A i \in DOMAIN Xa : \A t \in DOMAIN Xa[i] : \A f \in DOMAIN Xa[i][t] :
        REq(Xa[i][t][f], Xa[1][1][1])

\* draws of np.random.normal(0, noise_std, X.shape): no noise at all, or
\* a hundredth up and down; only the former when noise_std is 0
Noises(Xa) ==
    { [ i \in DOMAIN Xa |-> [ t \in DOMAIN Xa[i] |-> [ f \in DOMAIN Xa[i][t] |-> Zero ] ] ] }
    \cup ( IF AllEqual(Xa) THEN {}
           ELSE { [ i \in DOMAIN Xa |-> [ t \in DOMAIN Xa[i] |-> [ f \in DOMAIN Xa[i][t] |->
                      IF (i + t + f) % 2 = 0 THEN R(1, 100) ELSE R(-1, 100) ] ] ] } )

\* draws of np.random.uniform(0.9, 1.1, size=(N, 1, 1))
Scales(Xa) ==
    { [ i \in DOMAIN Xa |-> R(9, 10) ],
      [ i \in DOMAIN Xa |-> IF i % 2 = 1 THEN One ELSE R(21, 20) ] }

\* draws of start, one for each sample; none is drawn when the sequence is
\* not longer than mask_len
Starts(Xa) ==
    LET T == Len(Xa[1])
    IN  [ DOMAIN Xa -> IF T > MaskLen(T) THEN RandInt(0, T - MaskLen(T)) ELSE {0} ]

InitTrain ==
    /\ script = "emoreact"
    /\ \E N \in 1..MaxSamples :
       \E T \in { l \in TimeLengths : N * l <= MaxFrames } :
       \E xkind \in {"ramp", "sparse"}, ykind \in {"mixed", "full"} :
          /\ X_train = [ i \in 1..N |-> TrainSample(xkind, i, T) ]
          /\ y_train = [ i \in 1..N |-> TrainLabel(ykind, i) ]
    /\ class_weights = << >>
    /\ X_train_aug = << >>
    /\ y_train_aug = << >>
    /\ X_after = X_train
    /\ y_after = y_train
    /\ initial_bias = << >>
    /\ pc = "train_model"
    /\ aus_dir = [exists |-> FALSE, files |-> << >>]
    /\ valences_dir = [exists |-> FALSE, files |-> {}]
    /\ audio_dir = [exists |-> FALSE, folders |-> << >>]
    /\ data = << >>
    /\ warnings = << >>
    /\ IdleMain
    /\ IdleMetric
    /\ IdleMap
    /\ IdleJson

\* X_train_aug, y_train_aug = augment_data(X_train, y_train)
Augment ==
    /\ pc = "train_model"
    /\ \E noise \in Noises(X_train), scale \in Scales(X_train), starts \in Starts(X_train) :
          LET r == augment_data(X_train, y_train, noise, scale, starts)
          IN  /\ X_train_aug' = r.X_aug
              /\ y_train_aug' = r.y_aug
              /\ X_after' = r.X
              /\ y_after' = r.y
    /\ pc' = "augmented"
    /\ UNCHANGED <<X_train, y_train, class_weights, initial_bias, metricVars, jsonVars,
                   script, mapVars, fsVars, loadVars, mainVars>>

\* initial_bias = np.log(...), handed to build_visual_crnn_model
BiasInit ==
    /\ pc = "augmented"
    /\ initial_bias' = InitialBias(y_train_aug)
    /\ pc' = "bias_set"
    /\ UNCHANGED <<X_train, y_train, class_weights, X_train_aug, y_train_aug, X_after,
                   y_after, metricVars, jsonVars, script, mapVars, fsVars, loadVars,
                   mainVars>>

NextTrain ==
    \/ Augment
    \/ BiasInit

SpecTrain == InitTrain /\ [][NextTrain]_vars

(***************************************************************************)
(* Claims about train_model and augment_data                               *)
(***************************************************************************)
Augmented == pc \in {"augmented", "bias_set"}

\* C23: the output-bias initialisation log(pos / neg) is a finite number
\* for every emotion class, for any training label matrix, including a
\* class with zero positive samples and a class in which every sample is
\* positive
C23_BiasFinite ==
    pc = "bias_set" =>
        \A i \in 0..(valence_idx - 1) : initial_bias[i].finite

\* C24: for N input samples augment_data returns exactly 4N samples and 4N
\* labels, the first N samples are the originals unchanged, the label at
\* position kN+i is y[i] for every k in 0..3, and the input arrays X and y
\* are not modified
C24_FourTimesTheInput ==
    Augmented =>
        LET N == Len(X_train)
        IN  /\ Len(X_train_aug) = 4 * N
            /\ Len(y_train_aug) = 4 * N
            /\ \A i \in 1..N : X_train_aug[i] = X_train[i]
            /\ \A k \in 0..3 : \A i \in 1..N : y_train_aug[k * N + i] = y_train[i]
            /\ X_after = X_train
            /\ y_after = y_train

\* C24 witness: two samples with different labels, the masked copies differ
\* from the originals
C24_Witness ==
    /\ Augmented
    /\ Len(X_train) = 2
    /\ y_train[1] # y_train[2]
    /\ \A i \in 1..2 : X_train_aug[6 + i] # X_train[i]

\* the time-masked copy of sample i
MaskedCopy(i) == X_train_aug[3 * Len(X_train) + i]

\* C25: in every time-masked sample exactly mask_len = max(1, floor(0.1 T))
\* consecutive frames are zeroed, the window lies wholly inside the
\* sequence, every frame of the sequence can be chosen to be masked, and
\* all frames outside the window equal the original sample
C25_TimeMasking ==
    Augmented =>
        LET T == Len(X_train[1])
            mask_len == MaskLen(T)
        IN  /\ \A i \in DOMAIN X_train :
                  \E start \in 0..(T - mask_len) :
                      MaskedCopy(i) = MaskSample(X_train[i], start, mask_len)
            /\ T > mask_len
            /\ \A t \in 0..(T - 1) :
                  \E start \in RandInt(0, T - mask_len) :
                      start <= t /\ t < start + mask_len

\* what does hold of the masking: a sequence longer than mask_len has
\* mask_len consecutive frames zeroed inside the sequence, never the last
\* frame; a sequence of one frame is left as it is
C25_MaskingNeverLastFrame ==
    Augmented =>
        LET T == Len(X_train[1])
            mask_len == MaskLen(T)
        IN  \A i \in DOMAIN X_train :
              /\ MaskedCopy(i)[T] = X_train[i][T]
              /\ T > mask_len =>
                    \E start \in 0..(T - mask_len - 1) :
                        MaskedCopy(i) = MaskSample(X_train[i], start, mask_len)
              /\ T <= mask_len => MaskedCopy(i) = X_train[i]

(***************************************************************************)
(* train_visual_emoreact.py: the metric EmotionBinaryAccuracy              *)
(*                                                                         *)
(* y_true and y_pred are sequences of rows of 9 columns.  A 0/1 label is   *)
(* the integer 0 or 1, a prediction is a rational.                         *)
(***************************************************************************)
\* m[:, :n]
Columns(m, n) == [ r \in DOMAIN m |-> SubSeq(m[r], 1, n) ]

\* tf.cast(emotion_pred > 0.5, tf.float32)
PredBinary(m) ==
    [ r \in DOMAIN m |-> [ c \in DOMAIN m[r] |-> IF RLt(R(1, 2), m[r][c]) THEN 1 ELSE 0 ] ]

\* tf.reduce_sum of the matrix with the element f[<<r, c>>] in row r, column c
RECURSIVE ReduceSum(_, _)
ReduceSum(f, cells) ==
    IF cells = {} THEN 0
    ELSE LET cell == CHOOSE x \in cells : TRUE
         IN  f[cell] + ReduceSum(f, cells \ {cell})

\* the four sums of update_state over the first n columns
Counts(y_true, y_pred, n) ==
    LET emotion_true == Columns(y_true, n)
        emotion_pred_binary == PredBinary(Columns(y_pred, n))
        cells == { <<r, c>> : r \in DOMAIN y_true, c \in 1..n }
    IN  [ tp |-> ReduceSum([ x \in cells |->
                     emotion_true[x[1]][x[2]] * emotion_pred_binary[x[1]][x[2]] ], cells),
          fp |-> ReduceSum([ x \in cells |->
                     (1 - emotion_true[x[1]][x[2]]) * emotion_pred_binary[x[1]][x[2]] ], cells),
          fn |-> ReduceSum([ x \in cells |->
                     emotion_true[x[1]][x[2]] * (1 - emotion_pred_binary[x[1]][x[2]]) ], cells),
          tn |-> ReduceSum([ x \in cells |->
                     (1 - emotion_true[x[1]][x[2]]) * (1 - emotion_pred_binary[x[1]][x[2]]) ],
                     cells) ]

\* update_state summing over every column, the valence too
update_state_all_columns(y_true, y_pred) == Counts(y_true, y_pred, valence_idx + 1)

\* EmotionBinaryAccuracy.update_state: what is added to the four weights
update_state(y_true, y_pred) == Counts(y_true, y_pred, valence_idx)

\* EmotionBinaryAccuracy.result
result(tp, fp, fn, tn) ==
    LET total == tp + fp + fn + tn
    IN  E(tp + tn, total, 1)

(***************************************************************************)
(* SpecMetric: one EmotionBinaryAccuracy object, its methods called in any *)
(* order                                                                   *)
(***************************************************************************)
\* at most MaxSeen samples between two resets
MaxSeen == 3

\* the numbers of samples in one call of update_state
BatchLengths == {1, 2}

\* true rows: 8 labels 0/1, then a valence
TrueRows ==
    { [ c \in 1..(valence_idx + 1) |->
          IF c = valence_idx + 1 THEN 2
          ELSE CASE kind = "none" -> 0
                 [] kind = "all" -> 1
                 [] kind = "odd" -> c % 2
                 [] OTHER -> IF c = 1 THEN 1 ELSE 0 ] :
      kind \in {"none", "all", "odd", "first"} }

\* predicted rows: 9 outputs; 0.5 itself is not above 0.5
PredRows ==
    { [ c \in 1..(valence_idx + 1) |->
          CASE kind = "high" -> R(9, 10)
            [] kind = "half" -> R(1, 2)
            [] OTHER -> IF c % 3 = 0 THEN R(3, 5) ELSE R(2, 5) ] :
      kind \in {"high", "half", "third"} }

\* the batches: y_true and y_pred with the same number of rows
Batches ==
    UNION { { [ y_true |-> t, y_pred |-> p ] : t \in [1..n -> TrueRows], p \in [1..n -> PredRows] } :
            n \in BatchLengths }

\* what update_state adds to the weights for each batch
BatchCounts == [ b \in Batches |-> update_state(b.y_true, b.y_pred) ]

InitMetric ==
    /\ script = "emoreact"
    /\ IdleMetric
    /\ IdleWeights
    /\ IdleAug
    /\ IdleMap
    /\ IdleLoad
    /\ IdleJson

\* metric.update_state(y_true, y_pred)
UpdateState ==
    /\ \E b \in Batches :
          LET d == BatchCounts[b]
          IN  /\ seen + Len(b.y_true) <= MaxSeen
              /\ true_positives' = true_positives + d.tp
              /\ false_positives' = false_positives + d.fp
              /\ false_negatives' = false_negatives + d.fn
              /\ true_negatives' = true_negatives + d.tn
              /\ seen' = seen + Len(b.y_true)
    /\ last_call' = "update_state"
    /\ UNCHANGED <<result_value, weightVars, augVars, jsonVars, script, mapVars, fsVars, pc,
                   loadVars, mainVars>>

\* metric.result()
Result ==
    /\ result_value' = result(true_positives, false_positives, false_negatives,
                              true_negatives)
    /\ last_call' = "result"
    /\ UNCHANGED <<true_positives, false_positives, false_negatives, true_negatives, seen,
                   weightVars, augVars, jsonVars, script, mapVars, fsVars, pc, loadVars,
                   mainVars>>

\* metric.reset_state()
ResetState ==
    /\ true_positives' = 0
    /\ false_positives' = 0
    /\ false_negatives' = 0
    /\ true_negatives' = 0
    /\ seen' = 0
    /\ last_call' = "reset_state"
    /\ UNCHANGED <<result_value, weightVars, augVars, jsonVars, script, mapVars, fsVars, pc,
                   loadVars, mainVars>>

NextMetric ==
    \/ UpdateState
    \/ Result
    \/ ResetState

SpecMetric == InitMetric /\ [][NextMetric]_vars

(***************************************************************************)
(* Claims about EmotionBinaryAccuracy                                      *)
(***************************************************************************)
\* C26: after any sequence of update_state and reset_state calls with 0/1
\* emotion labels the four counters are non-negative, their sum is 8 times
\* the number of samples passed to update_state since the last reset,
\* result() lies between 0 and 1, and reset_state returns all four
\* counters to 0
C26_CountersOfTheMetric ==
    /\ true_positives >= 0 /\ false_positives >= 0
    /\ false_negatives >= 0 /\ true_negatives >= 0
    /\ true_positives + false_positives + false_negatives + true_negatives = 8 * seen
    /\ LET r == result(true_positives, false_positives, false_negatives, true_negatives)
       IN  ELe(E(0, 1, 0), r) /\ ELe(r, E(1, 1, 0))
    /\ last_call = "result" =>
          ELe(E(0, 1, 0), result_value) /\ ELe(result_value, E(1, 1, 0))
    /\ last_call = "reset_state" =>
          /\ true_positives = 0 /\ false_positives = 0
          /\ false_negatives = 0 /\ true_negatives = 0

\* C26 witness: updates after a reset, all four counters positive, and
\* result() called on them
C26_Witness ==
    /\ last_call = "result"
    /\ seen = MaxSeen
    /\ true_positives > 0 /\ false_positives > 0
    /\ false_negatives > 0 /\ true_negatives > 0
    /\ ELt(E(0, 1, 0), result_value) /\ ELt(result_value, E(1, 1, 0))

====
